---- MODULE Spec2Model ----
(***************************************************************************)
(* A model of the pairwise linters of viola-default-lints:                 *)
(*   duplicate-logic   (src/src/duplicate-logic.ts)                        *)
(*   similar-functions (src/src/similar-functions.ts)                      *)
(*   similar-types     (src/src/similar-types.ts)                          *)
(*                                                                         *)
(* Strings are sequences of UTF-16 code units, so that formatting a pair   *)
(* key, comparing two keys and testing a regular expression are computed   *)
(* as the code computes them.  A function body is such a string kept       *)
(* run-length encoded: a sequence of runs <<unit, count>>.  A score in      *)
(* [0, 1] is kept as an integer number of 600ths (Score), which is exact   *)
(* for every quotient the linters form on the inputs below.                *)
(***************************************************************************)
EXTENDS Integers, Sequences, FiniteSets, TLC

VARIABLES
  dlData,       \* duplicate-logic: the CodebaseData snapshot (data.files)
  dlUserOpts,   \* duplicate-logic: config.options as the caller gave them
  bodySim,      \* the body comparator's score for two normalized bodies
  dlPc,         \* duplicate-logic: position inside lint()
  dlFunctions,  \* duplicate-logic: result of prepareFunctions
  dlPairs,      \* duplicate-logic: findDuplicates' pairs array
  dlSeen,       \* duplicate-logic: findDuplicates' seenPairs set
  dlIssues,     \* duplicate-logic: the issues lint() returns
  nameSim,      \* the identifier scorer's score for two different names
  sfData,       \* similar-functions: the snapshot (data.allFunctions)
  sfUserOpts,   \* similar-functions: config.options as the caller gave them
  sfPc,         \* similar-functions: position inside lint()
  sfFunctions,  \* similar-functions: the functions left by the filter
  sfChecked,    \* similar-functions: lint's checked set
  sfIssues,     \* similar-functions: the issues lint() returns
  stData,       \* similar-types: the snapshot (data.allTypes)
  stUserOpts,   \* similar-types: config.options as the caller gave them
  stPc,         \* similar-types: position inside lint()
  stTypes,      \* similar-types: the types left by the filter
  stChecked,    \* similar-types: lint's checked set
  stIssues,     \* similar-types: the issues lint() returns
  fnName,       \* the helper function called on its own, "" for none
  fnArgs,       \* its two arguments
  fnResult,     \* <<its return value>>, <<>> before the call
  ocData,       \* orphaned-code: the snapshot (data.files)
  ocUserOpts,   \* orphaned-code: config.options as the caller gave them
  ocPc,         \* orphaned-code: position inside lint()
  ocExports,    \* orphaned-code: allExports
  ocImports,    \* orphaned-code: allImports
  ocUsed,       \* orphaned-code: usedExports
  ocIssues      \* orphaned-code: the issues lint() returns

dlVars == <<dlData, dlUserOpts, bodySim, dlPc, dlFunctions, dlPairs, dlSeen, dlIssues>>

sfVars == <<sfData, sfUserOpts, sfPc, sfFunctions, sfChecked, sfIssues>>

stVars == <<stData, stUserOpts, stPc, stTypes, stChecked, stIssues>>

fnVars == <<fnName, fnArgs, fnResult>>

ocVars == <<ocData, ocUserOpts, ocPc, ocExports, ocImports, ocUsed, ocIssues>>

vars == <<dlVars, nameSim, sfVars, stVars, fnVars, ocVars>>

\* The score pct / 100, in 600ths.
Score(pct) == pct * 6

\* Math.round(score * 100)
RoundPct(score) == (score * 100 + 300) \div 600

(***************************************************************************)
(* Strings                                                                 *)
(***************************************************************************)

\* JavaScript's a < b on strings: lexicographic on code units.
RECURSIVE StrLtFrom(_, _, _)
StrLtFrom(a, b, i) ==
  IF i > Len(b) THEN FALSE
  ELSE IF i > Len(a) THEN TRUE
  ELSE IF a[i] # b[i] THEN a[i] < b[i]
  ELSE StrLtFrom(a, b, i + 1)

StrLt(a, b) == StrLtFrom(a, b, 1)

\* The decimal digits of a natural number, as `${n}` formats it.
RECURSIVE NumStr(_)
NumStr(n) == IF n < 10 THEN <<48 + n>> ELSE NumStr(n \div 10) \o <<48 + (n % 10)>>

StartsWith(s, p) == Len(s) >= Len(p) /\ SubSeq(s, 1, Len(p)) = p

EndsWith(s, p) == Len(s) >= Len(p) /\ SubSeq(s, Len(s) - Len(p) + 1, Len(s)) = p

\* array.includes(x)
Includes(arr, x) == \E i \in 1..Len(arr) : arr[i] = x

\* A run-length encoded text: n copies of the code unit c.
Rep(c, n) == <<<<c, n>>>>

\* text.length of a run-length encoded text
RECURSIVE TextLen(_)
TextLen(t) == IF t = <<>> THEN 0 ELSE Head(t)[2] + TextLen(Tail(t))

\* Number of occurrences of the code unit c in a run-length encoded text.
RECURSIVE CountUnit(_, _)
CountUnit(t, c) ==
  IF t = <<>> THEN 0
  ELSE (IF Head(t)[1] = c THEN Head(t)[2] ELSE 0) + CountUnit(Tail(t), c)

\* body.split("\n").length
SplitLines(body) == CountUnit(body, 10) + 1

(***************************************************************************)
(* Regular expressions: the shapes the linters' defaults and tests use.    *)
(*   suffix       /lit$/          prefix       /^lit/                      *)
(*   prefixUpper  /^lit[A-Z]/     contains     /lit/                       *)
(***************************************************************************)
ReSuffix(lit) == [kind |-> "suffix", lit |-> lit]

RePrefix(lit) == [kind |-> "prefix", lit |-> lit]

RePrefixUpper(lit) == [kind |-> "prefixUpper", lit |-> lit]

ReContains(lit) == [kind |-> "contains", lit |-> lit]

\* pattern.test(s)
RegExpTest(p, s) ==
  CASE p.kind = "suffix" -> EndsWith(s, p.lit)
    [] p.kind = "prefix" -> StartsWith(s, p.lit)
    [] p.kind = "prefixUpper" ->
         /\ StartsWith(s, p.lit)
         /\ Len(s) > Len(p.lit)
         /\ s[Len(p.lit) + 1] \in 65..90
    [] p.kind = "contains" ->
         \E i \in 1..Len(s) : StartsWith(SubSeq(s, i, Len(s)), p.lit)

\* patterns.some((p) => p.test(s))
SomeMatch(patterns, s) == \E i \in 1..Len(patterns) : RegExpTest(patterns[i], s)

(***************************************************************************)
(* The external comparison library (@hiisi/viola), by its contract.        *)
(***************************************************************************)

IsWhitespace(c) == c \in {32, 10, 9, 13}

\* Collapse every run of whitespace to one space (no trimming yet).
RECURSIVE CollapseWs(_, _)
CollapseWs(t, inWs) ==
  IF t = <<>> THEN <<>>
  ELSE IF IsWhitespace(Head(t)[1])
       THEN (IF inWs THEN <<>> ELSE <<<<32, 1>>>>) \o CollapseWs(Tail(t), TRUE)
       ELSE <<Head(t)>> \o CollapseWs(Tail(t), FALSE)

\* normalizeCode(body): whitespace runs collapsed to single spaces, leading
\* and trailing whitespace dropped.
normalizeCode(body) ==
  LET c == CollapseWs(body, TRUE)   \* TRUE: leading whitespace is dropped
  IN  IF c # <<>> /\ c[Len(c)][1] = 32 THEN SubSeq(c, 1, Len(c) - 1) ELSE c

\* A polynomial digest of the runs of a text (the run-length encoding of a
\* text determines the text).
RECURSIVE PolyHash(_, _)
PolyHash(t, h) ==
  IF t = <<>> THEN h
  ELSE PolyHash(Tail(t), (((h * 31 + Head(t)[1]) % 65521) * 31 + Head(t)[2]) % 65521)

\* hashCodeBody(normalized): a stable, order-sensitive digest, as a string.
hashCodeBody(normalized) == NumStr(PolyHash(normalized, 7))

\* The level compareCodeBodies reports for a score.
bodyLevel(similarity) ==
  IF similarity >= Score(99) THEN "exact"
  ELSE IF similarity >= Score(85) THEN "high"
  ELSE IF similarity >= Score(70) THEN "medium"
  ELSE "low"

\* compareCodeBodies(a, b): the comparator's score for two normalized bodies.
\* bodySim holds the score of every pair of different bodies lint() can meet;
\* equal bodies score 1.0 and the comparator is symmetric.
compareCodeBodies(a, b) ==
  LET similarity == IF a = b THEN Score(100) ELSE bodySim[{a, b}]
  IN  [similarity |-> similarity, level |-> bodyLevel(similarity)]

\* issue() passing the code on as the kind, unprefixed.
issueKindAsGiven(metaId, code) == code

\* BaseLinter.issue(): a code without "/" is prefixed with the linter's id.
\* A code is <<qualifier, code>>; the qualifier is "" when the code has no "/".
issueKind(metaId, code) == IF code[1] # "" THEN code ELSE <<metaId, code[2]>>

(***************************************************************************)
(* duplicate-logic                                                         *)
(***************************************************************************)

DlMetaId == "duplicate-logic"

\* DEFAULT_OPTIONS
DlDefaultOptions ==
  [similarityThreshold |-> Score(85),
   minBodyLength |-> 50,
   minBodyLines |-> 3,
   crossFile |-> TRUE,
   differentNamesOnly |-> FALSE,
   ignoreFunctionPatterns |-> <<>>,
   ignoreFunctions |-> <<>>,
   ignoreFilePatterns |-> <<ReSuffix(<<46, 116, 101, 115, 116, 46, 116, 115>>),    \* /\.test\.ts$/
                            ReSuffix(<<46, 115, 112, 101, 99, 46, 116, 115>>),     \* /\.spec\.ts$/
                            ReSuffix(<<95, 116, 101, 115, 116, 46, 116, 115>>)>>,  \* /_test\.ts$/
   maxPairs |-> 50,
   errorOnExact |-> TRUE]

DlListOptions == {"ignoreFunctionPatterns", "ignoreFunctions", "ignoreFilePatterns"}

\* getOptions(config): defaults, overridden by the user's options; the three
\* list options are the default list followed by the user's list.
DlGetOptions(userOpts) ==
  [k \in DOMAIN DlDefaultOptions |->
     IF k \in DlListOptions
     THEN DlDefaultOptions[k] \o (IF k \in DOMAIN userOpts THEN userOpts[k] ELSE <<>>)
     ELSE IF k \in DOMAIN userOpts THEN userOpts[k] ELSE DlDefaultOptions[k]]

\* shouldCheck(func, opts)
shouldCheck(func, opts) ==
  IF func.name # <<>> /\ Includes(opts.ignoreFunctions, func.name) THEN FALSE
  ELSE IF func.name # <<>> /\ SomeMatch(opts.ignoreFunctionPatterns, func.name) THEN FALSE
  ELSE IF TextLen(func.body) < opts.minBodyLength THEN FALSE
  ELSE IF SplitLines(func.body) < opts.minBodyLines THEN FALSE
  ELSE TRUE

\* shouldCheck throws a TypeError: func.body.length is read of a function
\* whose body is undefined, unless one of the name tests returned before.
shouldCheckThrows(func, opts) ==
  IF func.name # <<>> /\ Includes(opts.ignoreFunctions, func.name) THEN FALSE
  ELSE IF func.name # <<>> /\ SomeMatch(opts.ignoreFunctionPatterns, func.name) THEN FALSE
  ELSE "body" \in func.missing

\* prepareFunctions throws: shouldCheck throws on a function of a file that
\* is not skipped.
prepareThrows(files, opts) ==
  \E i \in 1..Len(files) :
    /\ ~SomeMatch(opts.ignoreFilePatterns, files[i].path)
    /\ \E k \in 1..Len(files[i].functions) : shouldCheckThrows(files[i].functions[k], opts)

\* The FunctionWithMeta with both facts computed from the body.
withMetaComputed(func) ==
  [name |-> func.name, location |-> func.location, body |-> func.body,
   normalizedBody |-> func.normalizedBody, bodyHash |-> func.bodyHash,
   normalized |-> normalizeCode(func.body),
   hash |-> hashCodeBody(normalizeCode(func.body))]

\* The FunctionWithMeta pushed for an eligible function.
withMeta(func) ==
  LET normalized == IF func.normalizedBody # <<>> THEN func.normalizedBody
                    ELSE normalizeCode(func.body)
      hash == IF func.bodyHash # <<>> THEN func.bodyHash ELSE hashCodeBody(normalized)
  IN  [name |-> func.name, location |-> func.location, body |-> func.body,
       normalizedBody |-> func.normalizedBody, bodyHash |-> func.bodyHash,
       normalized |-> normalized, hash |-> hash]

\* The inner loop of prepareFunctions over one file's functions.
RECURSIVE prepareFile(_, _)
prepareFile(functions, opts) ==
  IF functions = <<>> THEN <<>>
  ELSE IF ~shouldCheck(Head(functions), opts) THEN prepareFile(Tail(functions), opts)
  ELSE <<withMeta(Head(functions))>> \o prepareFile(Tail(functions), opts)

\* prepareFunctions(data, opts)
RECURSIVE prepareFunctions(_, _)
prepareFunctions(files, opts) ==
  IF files = <<>> THEN <<>>
  ELSE IF SomeMatch(opts.ignoreFilePatterns, Head(files).path)
       THEN prepareFunctions(Tail(files), opts)
       ELSE prepareFile(Head(files).functions, opts) \o prepareFunctions(Tail(files), opts)

\* shouldCompare without the crossFile test.
shouldCompareAnyFile(func1, func2, opts) ==
  IF func1.location.file = func2.location.file /\ func1.location.line = func2.location.line
  THEN FALSE
  ELSE IF opts.differentNamesOnly /\ func1.name = func2.name THEN FALSE
  ELSE TRUE

\* shouldCompare with a skip of same-file pairs whose names differ.
shouldCompareSkipSameFile(func1, func2, opts) ==
  IF func1.location.file = func2.location.file /\ func1.location.line = func2.location.line
  THEN FALSE
  ELSE IF func1.location.file = func2.location.file /\ func1.name # func2.name THEN FALSE
  ELSE IF ~opts.crossFile /\ func1.location.file # func2.location.file THEN FALSE
  ELSE IF opts.differentNamesOnly /\ func1.name = func2.name THEN FALSE
  ELSE TRUE

\* shouldCompare(func1, func2, opts)
shouldCompare(func1, func2, opts) ==
  IF func1.location.file = func2.location.file /\ func1.location.line = func2.location.line
  THEN FALSE
  ELSE IF ~opts.crossFile /\ func1.location.file # func2.location.file THEN FALSE
  ELSE IF opts.differentNamesOnly /\ func1.name = func2.name THEN FALSE
  ELSE TRUE

\* `${func.location.file}:${func.location.line}`
DlLocKey(func) == func.location.file \o <<58>> \o NumStr(func.location.line)

\* A key built from the two file paths alone.
pairKeyFilesOnly(func1, func2) ==
  LET key1 == func1.location.file
      key2 == func2.location.file
  IN  IF StrLt(key1, key2) THEN key1 \o <<124>> \o key2 ELSE key2 \o <<124>> \o key1

\* pairKey(func1, func2)
pairKey(func1, func2) ==
  LET key1 == DlLocKey(func1)
      key2 == DlLocKey(func2)
  IN  IF StrLt(key1, key2) THEN key1 \o <<124>> \o key2 ELSE key2 \o <<124>> \o key1

\* The index pairs <<i, j>>, i < j <= n, in the order of the nested for loops.
RECURSIVE PairsFrom(_, _, _)
PairsFrom(i, j, n) ==
  IF i >= n THEN <<>>
  ELSE IF j > n THEN PairsFrom(i + 1, i + 2, n)
  ELSE <<<<i, j>>>> \o PairsFrom(i, j + 1, n)

IndexPairs(n) == PairsFrom(1, 2, n)

\* The keys of the byHash map, in insertion order.
RECURSIVE HashOrder(_, _)
HashOrder(functions, seen) ==
  IF functions = <<>> THEN <<>>
  ELSE IF Head(functions).hash \in seen THEN HashOrder(Tail(functions), seen)
  ELSE <<Head(functions).hash>> \o HashOrder(Tail(functions), seen \cup {Head(functions).hash})

\* byHash.get(h): the functions with hash h, in input order.
RECURSIVE HashGroup(_, _)
HashGroup(functions, h) ==
  IF functions = <<>> THEN <<>>
  ELSE (IF Head(functions).hash = h THEN <<Head(functions)>> ELSE <<>>)
       \o HashGroup(Tail(functions), h)

\* One iteration of the exact-duplicate loops, on st = [pairs, seen].
ExactStep(st, func1, func2, opts) ==
  IF ~shouldCompare(func1, func2, opts) THEN st
  ELSE IF pairKey(func1, func2) \in st.seen THEN st
  ELSE [pairs |-> Append(st.pairs, [func1 |-> func1, func2 |-> func2, similarity |-> Score(100),
                                    level |-> "exact", isExact |-> TRUE]),
        seen |-> st.seen \cup {pairKey(func1, func2)}]

\* The two nested loops over one hash group.
RECURSIVE ExactGroup(_, _, _, _)
ExactGroup(st, group, idx, opts) ==
  IF idx = <<>> THEN st
  ELSE ExactGroup(ExactStep(st, group[Head(idx)[1]], group[Head(idx)[2]], opts),
                  group, Tail(idx), opts)

\* for (const group of byHash.values())
RECURSIVE ExactGroups(_, _, _, _)
ExactGroups(st, functions, hashes, opts) ==
  IF hashes = <<>> THEN st
  ELSE LET group == HashGroup(functions, Head(hashes))
       IN  ExactGroups(IF Len(group) < 2 THEN st
                       ELSE ExactGroup(st, group, IndexPairs(Len(group)), opts),
                       functions, Tail(hashes), opts)

\* The exact-duplicate pass of findDuplicates.
ExactPass(functions, opts) ==
  ExactGroups([pairs |-> <<>>, seen |-> {}], functions, HashOrder(functions, {}), opts)

\* The near-duplicate iteration without the look-up in seenPairs.
NearStepNoSeen(st, func1, func2, opts) ==
  IF ~(Len(st.pairs) < opts.maxPairs) THEN st
  ELSE IF ~shouldCompare(func1, func2, opts) THEN st
  ELSE LET cmp == compareCodeBodies(func1.normalized, func2.normalized)
       IN  IF cmp.similarity >= opts.similarityThreshold
           THEN [pairs |-> Append(st.pairs, [func1 |-> func1, func2 |-> func2,
                                             similarity |-> cmp.similarity,
                                             level |-> cmp.level,
                                             isExact |-> cmp.similarity >= Score(99)]),
                 seen |-> st.seen \cup {pairKey(func1, func2)}]
           ELSE st

\* The near-duplicate iteration taking a pair for exact only at a score of 1.
NearStepExactAtOne(st, func1, func2, opts) ==
  IF ~(Len(st.pairs) < opts.maxPairs) THEN st
  ELSE IF ~shouldCompare(func1, func2, opts) THEN st
  ELSE IF pairKey(func1, func2) \in st.seen THEN st
  ELSE LET cmp == compareCodeBodies(func1.normalized, func2.normalized)
       IN  IF cmp.similarity >= opts.similarityThreshold
           THEN [pairs |-> Append(st.pairs, [func1 |-> func1, func2 |-> func2,
                                             similarity |-> cmp.similarity,
                                             level |-> cmp.level,
                                             isExact |-> cmp.similarity >= Score(100)]),
                 seen |-> st.seen \cup {pairKey(func1, func2)}]
           ELSE st

\* One iteration of the near-duplicate loops, on st = [pairs, seen].
NearStep(st, func1, func2, opts) ==
  IF ~(Len(st.pairs) < opts.maxPairs) THEN st      \* the loop conditions
  ELSE IF ~shouldCompare(func1, func2, opts) THEN st
  ELSE IF pairKey(func1, func2) \in st.seen THEN st
  ELSE LET cmp == compareCodeBodies(func1.normalized, func2.normalized)
       IN  IF cmp.similarity >= opts.similarityThreshold
           THEN [pairs |-> Append(st.pairs, [func1 |-> func1, func2 |-> func2,
                                             similarity |-> cmp.similarity,
                                             level |-> cmp.level,
                                             isExact |-> cmp.similarity >= Score(99)]),
                 seen |-> st.seen \cup {pairKey(func1, func2)}]
           ELSE st

RECURSIVE NearLoop(_, _, _, _)
NearLoop(st, functions, idx, opts) ==
  IF idx = <<>> THEN st
  ELSE NearLoop(NearStep(st, functions[Head(idx)[1]], functions[Head(idx)[2]], opts),
                functions, Tail(idx), opts)

\* The near-duplicate pass of findDuplicates.
NearPass(st, functions, opts) ==
  IF Len(st.pairs) < opts.maxPairs
  THEN NearLoop(st, functions, IndexPairs(Len(functions)), opts)
  ELSE st

\* Insert p behind every pair whose similarity is at least p's (a stable sort).
RECURSIVE InsertPair(_, _)
InsertPair(sorted, p) ==
  IF sorted = <<>> THEN <<p>>
  ELSE IF Head(sorted).similarity >= p.similarity
       THEN <<Head(sorted)>> \o InsertPair(Tail(sorted), p)
       ELSE <<p>> \o sorted

\* pairs.sort((a, b) => b.similarity - a.similarity)
RECURSIVE SortPairs(_, _)
SortPairs(pairs, acc) ==
  IF pairs = <<>> THEN acc ELSE SortPairs(Tail(pairs), InsertPair(acc, Head(pairs)))

\* arr.slice(0, end)
Slice0(arr, end) ==
  IF end >= 0 THEN SubSeq(arr, 1, IF end < Len(arr) THEN end ELSE Len(arr))
  ELSE SubSeq(arr, 1, IF Len(arr) + end > 0 THEN Len(arr) + end ELSE 0)

\* findDuplicates(functions, opts)
findDuplicates(functions, opts) ==
  Slice0(SortPairs(NearPass(ExactPass(functions, opts), functions, opts).pairs, <<>>),
         opts.maxPairs)

\* func.name || "(anonymous)"
DlDisplayName(func) ==
  IF func.name # <<>> THEN func.name
  ELSE <<40, 97, 110, 111, 110, 121, 109, 111, 117, 115, 41>>

\* pairToIssue without its exact-duplicate branch.
pairToIssueNoExact(pair, opts) ==
  [kind |-> issueKind(DlMetaId, <<"", "similar-implementation">>),
   location |-> pair.func1.location,
   relatedLocations |-> <<pair.func2.location>>,
   context |-> [function1 |-> DlDisplayName(pair.func1),
                function2 |-> DlDisplayName(pair.func2),
                similarity |-> RoundPct(pair.similarity),
                file1 |-> pair.func1.location.file,
                file2 |-> pair.func2.location.file]]

\* pairToIssue(pair, opts)
pairToIssue(pair, opts) ==
  [kind |-> issueKind(DlMetaId, IF pair.isExact /\ opts.errorOnExact
                                THEN <<"", "exact-duplicate">>
                                ELSE <<"", "similar-implementation">>),
   location |-> pair.func1.location,
   relatedLocations |-> <<pair.func2.location>>,
   context |-> [function1 |-> DlDisplayName(pair.func1),
                function2 |-> DlDisplayName(pair.func2),
                similarity |-> RoundPct(pair.similarity),
                file1 |-> pair.func1.location.file,
                file2 |-> pair.func2.location.file]]

\* for (const pair of pairs) issues.push(this.pairToIssue(pair, opts))
pairsToIssues(pairs, opts) == [i \in 1..Len(pairs) |-> pairToIssue(pairs[i], opts)]

(***************************************************************************)
(* duplicate-logic: the snapshots and options lint() is run on             *)
(***************************************************************************)

PathA == <<97, 46, 116, 115>>                            \* "a.ts"
PathB == <<98, 46, 116, 115>>                            \* "b.ts"
PathTest == <<97, 95, 116, 101, 115, 116, 46, 116, 115>> \* "a_test.ts"

NameFoo == <<102, 111, 111>>   \* "foo"
NameBar == <<98, 97, 114>>     \* "bar"
NameBaz == <<98, 97, 122>>     \* "baz"
NameNone == <<>>               \* "" (an anonymous function)

\* "{\n" + 48 x "a" + "\n}": 52 characters on 3 lines
BodyX == Rep(123, 1) \o Rep(10, 1) \o Rep(97, 48) \o Rep(10, 1) \o Rep(125, 1)
\* BodyX with more whitespace: "{\n  " + 48 x "a" + " \n}"
BodyXw == Rep(123, 1) \o Rep(10, 1) \o Rep(32, 2) \o Rep(97, 48) \o Rep(32, 1)
            \o Rep(10, 1) \o Rep(125, 1)
\* BodyX on one line: "{ " + 48 x "a" + " }"
BodyXflat == Rep(123, 1) \o Rep(32, 1) \o Rep(97, 48) \o Rep(32, 1) \o Rep(125, 1)
\* "{\n" + 48 x "b" + "\n}"
BodyY == Rep(123, 1) \o Rep(10, 1) \o Rep(98, 48) \o Rep(10, 1) \o Rep(125, 1)
\* "{\n" + 48 x "c" + "\n}"
BodyZ == Rep(123, 1) \o Rep(10, 1) \o Rep(99, 48) \o Rep(10, 1) \o Rep(125, 1)
\* "{\na\n}": 3 lines, 5 characters
BodyShort == Rep(123, 1) \o Rep(10, 1) \o Rep(97, 1) \o Rep(10, 1) \o Rep(125, 1)

\* A FunctionInfo as the extractor delivers it; normalizedBody and bodyHash
\* are "" when the extractor did not precompute them.
FunctionInfo(name, file, line, body) ==
  [name |-> name, location |-> [file |-> file, line |-> line], body |-> body,
   normalizedBody |-> <<>>, bodyHash |-> <<>>, missing |-> {}]

\* Eligible functions: two locations hold two functions each, "a.ts:10"
\* sorts before "a.ts:2", and three bodies differ after normalization.
DlCorePool ==
  {FunctionInfo(NameFoo, PathA, 2, BodyX),
   FunctionInfo(NameBar, PathA, 10, BodyXw),
   FunctionInfo(NameNone, PathA, 2, BodyY),
   FunctionInfo(NameFoo, PathB, 2, BodyX),
   FunctionInfo(NameBaz, PathB, 2, BodyY),
   FunctionInfo(NameBar, PathB, 1, BodyZ)}

\* Functions that meet the eligibility filters and functions that do not.
DlFilterPool ==
  {FunctionInfo(NameFoo, PathA, 2, BodyX),
   FunctionInfo(NameBar, PathB, 1, BodyXw),
   FunctionInfo(NameBaz, PathB, 3, BodyXflat),
   FunctionInfo(NameBar, PathA, 3, BodyShort),
   FunctionInfo(NameBaz, PathTest, 1, BodyX)}

\* Most functions of one snapshot.
MaxFuncs == 4

MaxFilterFuncs == 3

\* The functions of a snapshot in extraction order: no function twice, the
\* functions of one file next to each other.
DlFunctionLists(pool, max) ==
  {s \in UNION {[1..k -> pool] : k \in 0..max} :
     /\ \A i, j \in 1..Len(s) : i # j => s[i] # s[j]
     /\ \A i, j, k \in 1..Len(s) :
          (i < j /\ j < k /\ s[i].location.file = s[k].location.file)
             => s[j].location.file = s[i].location.file}

\* data.files for a function list: one FileData per path, in order.
RECURSIVE FilesOf(_)
FilesOf(s) ==
  IF s = <<>> THEN <<>>
  ELSE LET path == Head(s).location.file
           mine == SelectSeq(s, LAMBDA f : f.location.file = path)
           rest == SelectSeq(s, LAMBDA f : f.location.file # path)
       IN  <<[path |-> path, functions |-> mine]>> \o FilesOf(rest)

\* config.options objects (a missing key leaves the default in force).
DlCoreOpts ==
  {<<>>,
   [maxPairs |-> 0],
   [maxPairs |-> 1],
   [maxPairs |-> 2],
   [crossFile |-> FALSE],
   [differentNamesOnly |-> TRUE],
   [errorOnExact |-> FALSE],
   [similarityThreshold |-> Score(95)],
   [maxPairs |-> 1, crossFile |-> FALSE],
   [maxPairs |-> 2, differentNamesOnly |-> TRUE]}

DlFilterOpts ==
  {<<>>,
   [ignoreFunctions |-> <<NameFoo>>],
   [ignoreFunctionPatterns |-> <<RePrefix(<<98, 97>>)>>],     \* /^ba/
   [ignoreFilePatterns |-> <<RePrefix(<<98>>)>>],             \* /^b/
   [minBodyLength |-> 5],
   [minBodyLines |-> 1],
   [minBodyLength |-> 5, ignoreFunctions |-> <<NameBaz>>]}

\* Scores the body comparator may give two different normalized bodies.
SimLevels == {Score(70), Score(90), Score(100)}

\* The normalized bodies of a list of prepared functions.
NormsOf(functions) == {functions[i].normalized : i \in 1..Len(functions)}

\* The linters and helpers that are not run.
DlIdle ==
  /\ dlData = <<>>
  /\ dlUserOpts = <<>>
  /\ bodySim = <<>>
  /\ dlPc = "idle"
  /\ dlFunctions = <<>>
  /\ dlPairs = <<>>
  /\ dlSeen = {}
  /\ dlIssues = <<>>

SfIdle ==
  /\ sfData = <<>>
  /\ sfUserOpts = <<>>
  /\ sfPc = "idle"
  /\ sfFunctions = <<>>
  /\ sfChecked = {}
  /\ sfIssues = <<>>

StIdle ==
  /\ stData = <<>>
  /\ stUserOpts = <<>>
  /\ stPc = "idle"
  /\ stTypes = <<>>
  /\ stChecked = {}
  /\ stIssues = <<>>

FnIdle == fnName = "" /\ fnArgs = <<>> /\ fnResult = <<>>

OcIdle ==
  /\ ocData = <<>>
  /\ ocUserOpts = <<>>
  /\ ocPc = "idle"
  /\ ocExports = <<>>
  /\ ocImports = <<>>
  /\ ocUsed = {}
  /\ ocIssues = <<>>

DlInitFrom(pool, optsPool, max) ==
  /\ \E s \in DlFunctionLists(pool, max) : dlData = [files |-> FilesOf(s)]
  /\ dlUserOpts \in optsPool
  /\ LET norms == NormsOf(prepareFunctions(dlData.files, DlGetOptions(dlUserOpts)))
     IN  bodySim \in [{{a, b} : a \in norms, b \in norms} \ {{a} : a \in norms} -> SimLevels]
  /\ dlPc = "start"
  /\ dlFunctions = <<>>
  /\ dlPairs = <<>>
  /\ dlSeen = {}
  /\ dlIssues = <<>>
  /\ nameSim = <<>>
  /\ SfIdle
  /\ StIdle
  /\ FnIdle
  /\ OcIdle

DlInit == DlInitFrom(DlCorePool, DlCoreOpts, MaxFuncs)

DlFilterInit == DlInitFrom(DlFilterPool, DlFilterOpts, MaxFilterFuncs)

(***************************************************************************)
(* duplicate-logic: lint(data, config), one action per stage               *)
(***************************************************************************)

dlOpts == DlGetOptions(dlUserOpts)

\* const functions = this.prepareFunctions(data, opts);
\* if (functions.length < 2) return issues;
DlPrepare ==
  /\ dlPc = "start"
  /\ IF prepareThrows(dlData.files, dlOpts)
     THEN dlFunctions' = dlFunctions /\ dlPc' = "thrown"
     ELSE /\ dlFunctions' = prepareFunctions(dlData.files, dlOpts)
          /\ dlPc' = IF Len(dlFunctions') < 2 THEN "done" ELSE "exact"
  /\ UNCHANGED <<dlData, dlUserOpts, bodySim, dlPairs, dlSeen, dlIssues>>
  /\ UNCHANGED <<nameSim, sfVars, stVars, fnVars, ocVars>>

\* findDuplicates: group by hash, record every pair of a group
DlExactPass ==
  /\ dlPc = "exact"
  /\ LET st == ExactPass(dlFunctions, dlOpts)
     IN  dlPairs' = st.pairs /\ dlSeen' = st.seen
  /\ dlPc' = "near"
  /\ UNCHANGED <<dlData, dlUserOpts, bodySim, dlFunctions, dlIssues>>
  /\ UNCHANGED <<nameSim, sfVars, stVars, fnVars, ocVars>>

\* findDuplicates: the bounded pairwise scan
DlNearPass ==
  /\ dlPc = "near"
  /\ LET st == NearPass([pairs |-> dlPairs, seen |-> dlSeen], dlFunctions, dlOpts)
     IN  dlPairs' = st.pairs /\ dlSeen' = st.seen
  /\ dlPc' = "sort"
  /\ UNCHANGED <<dlData, dlUserOpts, bodySim, dlFunctions, dlIssues>>
  /\ UNCHANGED <<nameSim, sfVars, stVars, fnVars, ocVars>>

\* findDuplicates: sort, slice; lint: convert the pairs to issues and return
DlFinish ==
  /\ dlPc = "sort"
  /\ dlPairs' = Slice0(SortPairs(dlPairs, <<>>), dlOpts.maxPairs)
  /\ dlIssues' = pairsToIssues(dlPairs', dlOpts)
  /\ dlPc' = "done"
  /\ UNCHANGED <<dlData, dlUserOpts, bodySim, dlFunctions, dlSeen>>
  /\ UNCHANGED <<nameSim, sfVars, stVars, fnVars, ocVars>>

DlNext == DlPrepare \/ DlExactPass \/ DlNearPass \/ DlFinish

SpecDL == DlInit /\ [][DlNext]_vars

SpecDLFilter == DlFilterInit /\ [][DlNext]_vars

(***************************************************************************)
(* The identifier scorer (@hiisi/viola), by its contract.                  *)
(***************************************************************************)

\* compareIdentifiers(a, b): deterministic and symmetric; two names score 1.0
\* only when equal.  nameSim holds the score of every pair of different
\* names a call can meet.
compareIdentifiers(a, b) ==
  [similarity |-> IF a = b THEN Score(100) ELSE nameSim[{a, b}]]

(***************************************************************************)
(* similar-functions                                                       *)
(***************************************************************************)

\* DEFAULT_OPTIONS
SfDefaultOptions ==
  [minSimilarity |-> Score(70),
   warningThreshold |-> Score(70),
   errorThreshold |-> Score(85),
   minFunctionLines |-> 3,
   minNameLength |-> 3,
   ignorePatterns |-> <<RePrefixUpper(<<104, 97, 110, 100, 108, 101>>),  \* /^handle[A-Z]/
                        RePrefixUpper(<<111, 110>>),                     \* /^on[A-Z]/
                        RePrefixUpper(<<103, 101, 116>>),                \* /^get[A-Z]/
                        RePrefixUpper(<<115, 101, 116>>),                \* /^set[A-Z]/
                        RePrefixUpper(<<105, 115>>),                     \* /^is[A-Z]/
                        RePrefixUpper(<<104, 97, 115>>)>>,               \* /^has[A-Z]/
   ignoreFunctions |-> <<>>]

\* getOptions(config): { ...DEFAULT_OPTIONS, ...opts }
SfGetOptions(userOpts) ==
  [k \in DOMAIN SfDefaultOptions |->
     IF k \in DOMAIN userOpts THEN userOpts[k] ELSE SfDefaultOptions[k]]

\* shouldIgnore without the explicit list.
shouldIgnorePatternsOnly(name, patterns, explicitNames) == SomeMatch(patterns, name)

\* shouldIgnore(name, patterns, explicitNames)
shouldIgnore(name, patterns, explicitNames) ==
  IF Includes(explicitNames, name) THEN TRUE ELSE SomeMatch(patterns, name)

\* The position test with "at least 0.8" for "above 0.8".
ParamsMatchAtLeast(a, b) ==
  IF a.type # "" /\ b.type # "" /\ a.type = b.type THEN TRUE
  ELSE IF a.type = "" /\ b.type = ""
       THEN compareIdentifiers(a.name, b.name).similarity >= Score(80)
       ELSE FALSE

\* ParamsMatch asking only the second parameter to be untyped before the
\* names are compared.
ParamsMatchUntypedB(a, b) ==
  IF a.type # "" /\ b.type # "" /\ a.type = b.type THEN TRUE
  ELSE IF b.type = ""
       THEN compareIdentifiers(a.name, b.name).similarity > Score(80)
       ELSE FALSE

\* The test compareParams makes at one position; a type is "" when the
\* parameter declares none.
ParamsMatch(a, b) ==
  IF a.type # "" /\ b.type # "" /\ a.type = b.type THEN TRUE
  ELSE IF a.type = "" /\ b.type = ""
       THEN compareIdentifiers(a.name, b.name).similarity > Score(80)
       ELSE FALSE

\* compareParams(paramsA, paramsB)
compareParams(paramsA, paramsB) ==
  IF Len(paramsA) = 0 /\ Len(paramsB) = 0 THEN Score(100)
  ELSE IF Len(paramsA) # Len(paramsB) THEN 0
  ELSE LET matchCount ==
             Cardinality({i \in 1..Len(paramsA) : ParamsMatch(paramsA[i], paramsB[i])})
       IN  (matchCount * Score(100)) \div Len(paramsA)

\* The tier test without the minSimilarity floor.
NameTierNoFloor(similarity, options) ==
  IF similarity >= options.errorThreshold THEN "high"
  ELSE IF similarity >= options.warningThreshold THEN "medium"
  ELSE "none"

\* The threshold tests of checkPair (the same in both name linters): "none"
\* where checkPair returns null.
NameTier(similarity, options) ==
  IF similarity < options.minSimilarity THEN "none"
  ELSE IF similarity >= options.errorThreshold THEN "high"
  ELSE IF similarity >= options.warningThreshold THEN "medium"
  ELSE "none"

\* formatSignature(func), kept as its parts: the name and the parameters.
formatSignature(func) == [name |-> func.name, params |-> func.params]

\* The callback of data.allFunctions.filter in lint.
SfKeep(func, options) ==
  IF func.name = <<>> THEN FALSE
  ELSE IF Len(func.name) < options.minNameLength THEN FALSE
  ELSE IF shouldIgnore(func.name, options.ignorePatterns, options.ignoreFunctions) THEN FALSE
  ELSE IF SplitLines(func.body) < options.minFunctionLines THEN FALSE
  ELSE TRUE

\* The filter callback throws a TypeError: func.body.split is called on an
\* undefined body, unless one of the name tests returned before.
SfKeepThrows(func, options) ==
  IF func.name = <<>> THEN FALSE
  ELSE IF Len(func.name) < options.minNameLength THEN FALSE
  ELSE IF shouldIgnore(func.name, options.ignorePatterns, options.ignoreFunctions) THEN FALSE
  ELSE "body" \in func.missing

\* [`${file}:${line}:${name}` of A, the same of B].sort().join("||")
NamedPairKey(a, b) ==
  LET key1 == a.location.file \o <<58>> \o NumStr(a.location.line) \o <<58>> \o a.name
      key2 == b.location.file \o <<58>> \o NumStr(b.location.line) \o <<58>> \o b.name
  IN  IF StrLt(key2, key1) THEN key2 \o <<124, 124>> \o key1 ELSE key1 \o <<124, 124>> \o key2

\* checkSameNameFunctions reporting identical signatures only.
checkSameNameIdenticalOnly(funcA, funcB, options) ==
  IF compareParams(funcA.params, funcB.params) # Score(100) THEN <<>>
  ELSE <<[kind |-> <<"similar-functions", "duplicate-function">>,
          location |-> funcA.location,
          relatedLocations |-> <<funcB.location>>,
          context |-> [funcA |-> formatSignature(funcA), funcB |-> formatSignature(funcB),
                       paramSimilarity |-> Score(100)]]>>

\* checkSameNameFunctions(funcA, funcB, options): always one issue.
checkSameNameFunctions(funcA, funcB, options) ==
  LET paramSimilarity == compareParams(funcA.params, funcB.params)
  IN  <<[kind |-> issueKind("similar-functions",
                            IF paramSimilarity = Score(100)
                            THEN <<"similar-functions", "duplicate-function">>
                            ELSE <<"similar-functions", "same-name-different-params">>),
         location |-> funcA.location,
         relatedLocations |-> <<funcB.location>>,
         context |-> [funcA |-> formatSignature(funcA), funcB |-> formatSignature(funcB),
                      paramSimilarity |-> paramSimilarity]]>>

\* checkPair(funcA, funcB, options): <<>> for null, else the one issue.
SfCheckPair(funcA, funcB, options) ==
  LET similarity == compareIdentifiers(funcA.name, funcB.name).similarity
  IN  IF funcA.name = funcB.name THEN checkSameNameFunctions(funcA, funcB, options)
      ELSE IF NameTier(similarity, options) = "none" THEN <<>>
      ELSE <<[kind |-> issueKind("similar-functions",
                                 IF NameTier(similarity, options) = "high" THEN <<"similar-functions", "similar-name-high">>
                                 ELSE <<"similar-functions", "similar-name-medium">>),
              location |-> funcA.location,
              relatedLocations |-> <<funcB.location>>,
              context |-> [funcA |-> formatSignature(funcA),
                           funcB |-> formatSignature(funcB),
                           similarity |-> similarity]]>>

\* One iteration of lint's nested loops, on st = [issues, checked].
SfStep(st, funcA, funcB, options) ==
  IF NamedPairKey(funcA, funcB) \in st.checked THEN st
  ELSE IF funcA.location.file = funcB.location.file /\ funcA.name # funcB.name
       THEN [st EXCEPT !.checked = @ \cup {NamedPairKey(funcA, funcB)}]
       ELSE [issues |-> st.issues \o SfCheckPair(funcA, funcB, options),
             checked |-> st.checked \cup {NamedPairKey(funcA, funcB)}]

\* lint's nested loops over the filtered functions.
RECURSIVE SfLoop(_, _, _, _)
SfLoop(st, functions, idx, options) ==
  IF idx = <<>> THEN st
  ELSE SfLoop(SfStep(st, functions[Head(idx)[1]], functions[Head(idx)[2]], options),
              functions, Tail(idx), options)

(***************************************************************************)
(* similar-functions: the snapshots and options lint() is run on           *)
(***************************************************************************)

NameRun == <<114, 117, 110>>        \* "run"
NameRuns == <<114, 117, 110, 115>>  \* "runs"
NameGetX == <<103, 101, 116, 88>>   \* "getX"
NameGo == <<103, 111>>              \* "go"

NameA == <<97>>                     \* "a"
NameB == <<98>>                     \* "b"

\* A FunctionInfo with the fields similar-functions reads.
SfFunction(name, file, line, body, params) ==
  [name |-> name, location |-> [file |-> file, line |-> line], body |-> body,
   params |-> params, missing |-> {}]

Param(name, type) == [name |-> name, type |-> type]

SfPool ==
  {SfFunction(NameRun, PathA, 1, BodyShort, <<Param(NameA, "")>>),
   SfFunction(NameRun, PathB, 1, BodyShort, <<Param(NameB, "")>>),
   SfFunction(NameRun, PathB, 5, BodyShort, <<Param(NameA, "string"), Param(NameB, "number")>>),
   SfFunction(NameRun, PathTest, 1, BodyShort, <<Param(NameA, "string"), Param(NameB, "number")>>),
   SfFunction(NameRuns, PathB, 9, BodyShort, <<>>),
   SfFunction(NameGetX, PathA, 7, BodyShort, <<>>),
   SfFunction(NameGo, PathB, 3, BodyShort, <<>>),
   SfFunction(NameRun, PathA, 4, BodyXflat, <<Param(NameA, "")>>),
   SfFunction(NameNone, PathA, 9, BodyShort, <<>>)}

\* Most functions of one similar-functions snapshot.
MaxSfFuncs == 3

\* data.allFunctions: no function twice.
EntityLists(pool, max) ==
  {s \in UNION {[1..k -> pool] : k \in 0..max} :
     \A i, j \in 1..Len(s) : i # j => s[i] # s[j]}

SfOpts ==
  {<<>>,
   [minSimilarity |-> Score(50), warningThreshold |-> Score(50), errorThreshold |-> Score(80)],
   [minSimilarity |-> Score(90)],
   [warningThreshold |-> Score(80)],
   [ignoreFunctions |-> <<NameRuns>>],
   [ignorePatterns |-> <<ReSuffix(<<115>>)>>],     \* /s$/
   [minNameLength |-> 2],
   [minFunctionLines |-> 1]}

\* Scores the identifier scorer may give two different names.
NameLevels == {Score(40), Score(60), Score(75), Score(90)}

\* The unordered pairs of different elements of a set.
PairsOf(S) == {{a, b} : a \in S, b \in S} \ {{a} : a \in S}

\* The names and parameter names of a list of functions.
SfNames(functions) == {functions[i].name : i \in 1..Len(functions)}

SfParamNames(functions) ==
  UNION {{functions[i].params[k].name : k \in 1..Len(functions[i].params)} :
           i \in 1..Len(functions)}

SfInit ==
  /\ sfData \in EntityLists(SfPool, MaxSfFuncs)
  /\ sfUserOpts \in SfOpts
  /\ LET kept == SelectSeq(sfData, LAMBDA f : SfKeep(f, SfGetOptions(sfUserOpts)))
     IN  nameSim \in [PairsOf(SfNames(kept)) \cup PairsOf(SfParamNames(kept)) -> NameLevels]
  /\ sfPc = "start"
  /\ sfFunctions = <<>>
  /\ sfChecked = {}
  /\ sfIssues = <<>>
  /\ DlIdle
  /\ StIdle
  /\ FnIdle
  /\ OcIdle

(***************************************************************************)
(* similar-functions: lint(data, config), one action per stage             *)
(***************************************************************************)

sfOpts == SfGetOptions(sfUserOpts)

\* const functions = data.allFunctions.filter(...)
SfFilter ==
  /\ sfPc = "start"
  /\ IF \E i \in 1..Len(sfData) : SfKeepThrows(sfData[i], sfOpts)
     THEN sfFunctions' = sfFunctions /\ sfPc' = "thrown"
     ELSE /\ sfFunctions' = SelectSeq(sfData, LAMBDA f : SfKeep(f, sfOpts))
          /\ sfPc' = "pairs"
  /\ UNCHANGED <<sfData, sfUserOpts, sfChecked, sfIssues>>
  /\ UNCHANGED <<dlVars, nameSim, stVars, fnVars, ocVars>>

\* Compare all pairs; return issues
SfComparePairs ==
  /\ sfPc = "pairs"
  /\ LET st == SfLoop([issues |-> <<>>, checked |-> {}], sfFunctions,
                      IndexPairs(Len(sfFunctions)), sfOpts)
     IN  sfIssues' = st.issues /\ sfChecked' = st.checked
  /\ sfPc' = "done"
  /\ UNCHANGED <<sfData, sfUserOpts, sfFunctions>>
  /\ UNCHANGED <<dlVars, nameSim, stVars, fnVars, ocVars>>

SfNext == SfFilter \/ SfComparePairs

SpecSF == SfInit /\ [][SfNext]_vars

(***************************************************************************)
(* similar-types                                                           *)
(***************************************************************************)

\* The patterns DEFAULT_OPTIONS.ignorePatterns names in its comment and leaves
\* out: /^I[A-Z]/, /Props$/, /Options$/, /Config$/.
CommonPatterns ==
  <<RePrefixUpper(<<73>>),
    ReSuffix(<<80, 114, 111, 112, 115>>),
    ReSuffix(<<79, 112, 116, 105, 111, 110, 115>>),
    ReSuffix(<<67, 111, 110, 102, 105, 103>>)>>

\* DEFAULT_OPTIONS with the four patterns in ignorePatterns.
StDefaultOptionsWithPatterns ==
  [minSimilarity |-> Score(70),
   warningThreshold |-> Score(70),
   errorThreshold |-> Score(85),
   minFieldCount |-> 2,
   minNameLength |-> 3,
   ignorePatterns |-> CommonPatterns,
   ignoreTypes |-> <<>>,
   checkFieldStructure |-> TRUE,
   fieldSimilarityThreshold |-> Score(80)]

\* DEFAULT_OPTIONS
StDefaultOptions ==
  [minSimilarity |-> Score(70),
   warningThreshold |-> Score(70),
   errorThreshold |-> Score(85),
   minFieldCount |-> 2,
   minNameLength |-> 3,
   ignorePatterns |-> <<>>,
   ignoreTypes |-> <<>>,
   checkFieldStructure |-> TRUE,
   fieldSimilarityThreshold |-> Score(80)]

\* getOptions(config): defaults, overridden by the user's options; the two
\* list options are the default list followed by the user's list.
StGetOptions(userOpts) ==
  [k \in DOMAIN StDefaultOptions |->
     IF k \in {"ignorePatterns", "ignoreTypes"}
     THEN StDefaultOptions[k] \o (IF k \in DOMAIN userOpts THEN userOpts[k] ELSE <<>>)
     ELSE IF k \in DOMAIN userOpts THEN userOpts[k] ELSE StDefaultOptions[k]]

\* jaccardSimilarity(setA, setB) of @hiisi/viola: |A n B| / |A u B|.
jaccardSimilarity(setA, setB) ==
  IF setA \cup setB = {} THEN Score(100)
  ELSE (Cardinality(setA \cap setB) * Score(100)) \div Cardinality(setA \cup setB)

\* fields.find((f) => f.name === name).type, for a name the list holds
RECURSIVE FindType(_, _)
FindType(fields, name) ==
  IF Head(fields).name = name THEN Head(fields).type ELSE FindType(Tail(fields), name)

\* The weights the other way round.
combinedScoreSwapped(nameSimilarity, typeSimilarity) ==
  (nameSimilarity * 4 + typeSimilarity * 6) \div 10

\* nameSimilarity * 0.6 + typeSimilarity * 0.4
combinedScore(nameSimilarity, typeSimilarity) ==
  (nameSimilarity * 6 + typeSimilarity * 4) \div 10

\* compareFields(fieldsA, fieldsB)
compareFields(fieldsA, fieldsB) ==
  IF Len(fieldsA) = 0 /\ Len(fieldsB) = 0
  THEN [nameSimilarity |-> Score(100), typeSimilarity |-> Score(100), combined |-> Score(100)]
  ELSE IF Len(fieldsA) = 0 \/ Len(fieldsB) = 0
  THEN [nameSimilarity |-> 0, typeSimilarity |-> 0, combined |-> 0]
  ELSE LET namesA == {fieldsA[i].name : i \in 1..Len(fieldsA)}
           namesB == {fieldsB[i].name : i \in 1..Len(fieldsB)}
           nameSimilarity == jaccardSimilarity(namesA, namesB)
           commonNames == {n \in namesA : n \in namesB}
           typeMatchCount ==
             Cardinality({n \in commonNames : FindType(fieldsA, n) = FindType(fieldsB, n)})
           typeSimilarity ==
             IF Cardinality(commonNames) > 0
             THEN (typeMatchCount * Score(100)) \div Cardinality(commonNames)
             ELSE 0
       IN  [nameSimilarity |-> nameSimilarity,
            typeSimilarity |-> typeSimilarity,
            combined |-> combinedScore(nameSimilarity, typeSimilarity)]

\* formatType(type), kept as its parts: the name and the fields.
formatType(type) == [name |-> type.name, fields |-> type.fields]

\* The callback of data.allTypes.filter in lint.
StKeep(type, options) ==
  IF type.name = <<>> THEN FALSE
  ELSE IF Len(type.name) < options.minNameLength THEN FALSE
  ELSE IF shouldIgnore(type.name, options.ignorePatterns, options.ignoreTypes) THEN FALSE
  ELSE IF Len(type.fields) < options.minFieldCount THEN FALSE
  ELSE TRUE

\* The filter callback throws a TypeError: type.fields.length is read of a
\* type whose fields are undefined, unless one of the name tests returned
\* before.
StKeepThrows(type, options) ==
  IF type.name = <<>> THEN FALSE
  ELSE IF Len(type.name) < options.minNameLength THEN FALSE
  ELSE IF shouldIgnore(type.name, options.ignorePatterns, options.ignoreTypes) THEN FALSE
  ELSE "fields" \in type.missing

\* checkSameNameTypes without the comparison of the fields.
checkSameNameTypesNoFields(typeA, typeB, options) ==
  <<[kind |-> <<"similar-types", "duplicate-type">>,
     location |-> typeA.location,
     relatedLocations |-> <<typeB.location>>,
     context |-> [typeA |-> formatType(typeA), typeB |-> formatType(typeB),
                  fieldComparison |-> compareFields(typeA.fields, typeB.fields)]]>>

\* checkSameNameTypes(typeA, typeB, options): always one issue.
checkSameNameTypes(typeA, typeB, options) ==
  LET fieldComparison == compareFields(typeA.fields, typeB.fields)
  IN  <<[kind |-> issueKind("similar-types",
                            IF fieldComparison.combined > Score(90)
                            THEN <<"", "duplicate-type">>
                            ELSE <<"", "same-name-different-structure">>),
         location |-> typeA.location,
         relatedLocations |-> <<typeB.location>>,
         context |-> [typeA |-> formatType(typeA), typeB |-> formatType(typeB),
                      fieldComparison |-> fieldComparison]]>>

\* checkPair(typeA, typeB, options): <<>> for null, else the one issue.
StCheckPair(typeA, typeB, options) ==
  LET similarity == compareIdentifiers(typeA.name, typeB.name).similarity
  IN  IF typeA.name = typeB.name THEN checkSameNameTypes(typeA, typeB, options)
      ELSE IF NameTier(similarity, options) = "none" THEN <<>>
      ELSE <<[kind |-> issueKind("similar-types",
                                 IF NameTier(similarity, options) = "high" THEN <<"", "similar-name-high">>
                                 ELSE <<"", "similar-name-medium">>),
              location |-> typeA.location,
              relatedLocations |-> <<typeB.location>>,
              context |-> [typeA |-> typeA.name, typeB |-> typeB.name,
                           similarity |-> similarity]]>>

\* One iteration of lint's nested loops, on st = [issues, checked].
StStep(st, typeA, typeB, options) ==
  IF NamedPairKey(typeA, typeB) \in st.checked THEN st
  ELSE IF typeA.location.file = typeB.location.file /\ typeA.name # typeB.name
       THEN [st EXCEPT !.checked = @ \cup {NamedPairKey(typeA, typeB)}]
       ELSE [issues |-> st.issues \o StCheckPair(typeA, typeB, options),
             checked |-> st.checked \cup {NamedPairKey(typeA, typeB)}]

\* lint's nested loops over the filtered types.
RECURSIVE StLoop(_, _, _, _)
StLoop(st, types, idx, options) ==
  IF idx = <<>> THEN st
  ELSE StLoop(StStep(st, types[Head(idx)[1]], types[Head(idx)[2]], options),
              types, Tail(idx), options)

\* [`${file}:${name}` of A, the same of B].sort().join("||")
StructureKey(a, b) ==
  LET key1 == a.location.file \o <<58>> \o a.name
      key2 == b.location.file \o <<58>> \o b.name
  IN  IF StrLt(key2, key1) THEN key2 \o <<124, 124>> \o key1 ELSE key1 \o <<124, 124>> \o key2

\* StructureStep with the threshold test left out: every compared pair is
\* reported.
StructureStepNoThreshold(st, typeA, typeB, options) ==
  IF typeA.name = typeB.name THEN st
  ELSE IF compareIdentifiers(typeA.name, typeB.name).similarity > Score(50) THEN st
  ELSE IF StructureKey(typeA, typeB) \in st.checked THEN st
  ELSE LET fieldComparison == compareFields(typeA.fields, typeB.fields)
       IN  [issues |-> Append(st.issues,
              [kind |-> issueKind("similar-types", <<"", "similar-structure">>),
               location |-> typeA.location,
               relatedLocations |-> <<typeB.location>>,
               context |-> [typeA |-> typeA.name, typeB |-> typeB.name,
                            fieldComparison |-> fieldComparison]]),
            checked |-> st.checked \cup {StructureKey(typeA, typeB)}]

\* One iteration of checkFieldStructures' loops, on st = [issues, checked].
StructureStep(st, typeA, typeB, options) ==
  IF typeA.name = typeB.name THEN st
  ELSE IF compareIdentifiers(typeA.name, typeB.name).similarity > Score(50) THEN st
  ELSE IF StructureKey(typeA, typeB) \in st.checked THEN st
  ELSE LET fieldComparison == compareFields(typeA.fields, typeB.fields)
           checked == st.checked \cup {StructureKey(typeA, typeB)}
       IN  IF fieldComparison.combined >= options.fieldSimilarityThreshold
           THEN [issues |-> Append(st.issues,
                   [kind |-> issueKind("similar-types", <<"", "similar-structure">>),
                    location |-> typeA.location,
                    relatedLocations |-> <<typeB.location>>,
                    context |-> [typeA |-> typeA.name, typeB |-> typeB.name,
                                 fieldComparison |-> fieldComparison]]),
                 checked |-> checked]
           ELSE [issues |-> st.issues, checked |-> checked]

RECURSIVE StructureLoop(_, _, _, _)
StructureLoop(st, types, idx, options) ==
  IF idx = <<>> THEN st
  ELSE StructureLoop(StructureStep(st, types[Head(idx)[1]], types[Head(idx)[2]], options),
                     types, Tail(idx), options)

\* checkFieldStructures(types, options)
checkFieldStructures(types, options) ==
  LET typesWithFields == SelectSeq(types, LAMBDA t : Len(t.fields) >= options.minFieldCount)
  IN  StructureLoop([issues |-> <<>>, checked |-> {}], typesWithFields,
                    IndexPairs(Len(typesWithFields)), options).issues

(***************************************************************************)
(* similar-types: the snapshots and options lint() is run on               *)
(***************************************************************************)

NameUsr == <<85, 115, 114>>        \* "Usr"
NameUsrs == <<85, 115, 114, 115>>  \* "Usrs"
NameAcct == <<65, 99, 99, 116>>    \* "Acct"
NameAb == <<65, 98>>               \* "Ab"

\* A TypeInfo with the fields similar-types reads.
TypeInfo(name, file, line, fields) ==
  [name |-> name, location |-> [file |-> file, line |-> line], fields |-> fields,
   missing |-> {}]

Field(name, type) == [name |-> name, type |-> type]

StPool ==
  {TypeInfo(NameUsr, PathA, 1, <<Field("a", "string"), Field("b", "number")>>),
   TypeInfo(NameUsr, PathB, 1, <<Field("a", "string"), Field("b", "number")>>),
   TypeInfo(NameUsr, PathB, 5, <<Field("a", "string"), Field("c", "number")>>),
   TypeInfo(NameAcct, PathB, 9, <<Field("a", "string"), Field("b", "number")>>),
   TypeInfo(NameUsrs, PathA, 7, <<Field("a", "number"), Field("b", "number")>>),
   TypeInfo(NameAb, PathA, 9, <<Field("a", "string"), Field("b", "number")>>),
   TypeInfo(NameAcct, PathA, 3, <<Field("a", "string")>>),
   TypeInfo(NameNone, PathB, 3, <<Field("a", "string"), Field("b", "number")>>)}

\* Most types of one similar-types snapshot.
MaxStTypes == 3

StOpts ==
  {<<>>,
   [checkFieldStructure |-> FALSE],
   [ignoreTypes |-> <<NameAcct>>],
   [ignorePatterns |-> <<RePrefix(<<85, 115>>)>>],    \* /^Us/
   [minNameLength |-> 2],
   [minFieldCount |-> 1],
   [minSimilarity |-> Score(90)],
   [fieldSimilarityThreshold |-> Score(60)]}

StInit ==
  /\ stData \in EntityLists(StPool, MaxStTypes)
  /\ stUserOpts \in StOpts
  /\ LET kept == SelectSeq(stData, LAMBDA t : StKeep(t, StGetOptions(stUserOpts)))
     IN  nameSim \in [PairsOf({kept[i].name : i \in 1..Len(kept)}) -> NameLevels]
  /\ stPc = "start"
  /\ stTypes = <<>>
  /\ stChecked = {}
  /\ stIssues = <<>>
  /\ DlIdle
  /\ SfIdle
  /\ FnIdle
  /\ OcIdle

(***************************************************************************)
(* similar-types: lint(data, config), one action per stage                 *)
(***************************************************************************)

stOpts == StGetOptions(stUserOpts)

\* const types = data.allTypes.filter(...)
StFilter ==
  /\ stPc = "start"
  /\ IF \E i \in 1..Len(stData) : StKeepThrows(stData[i], stOpts)
     THEN stTypes' = stTypes /\ stPc' = "thrown"
     ELSE /\ stTypes' = SelectSeq(stData, LAMBDA t : StKeep(t, stOpts))
          /\ stPc' = "names"
  /\ UNCHANGED <<stData, stUserOpts, stChecked, stIssues>>
  /\ UNCHANGED <<dlVars, nameSim, sfVars, fnVars, ocVars>>

\* Compare all pairs for name similarity; return when checkFieldStructure is
\* off.
StNamePass ==
  /\ stPc = "names"
  /\ LET st == StLoop([issues |-> <<>>, checked |-> {}], stTypes,
                      IndexPairs(Len(stTypes)), stOpts)
     IN  stIssues' = st.issues /\ stChecked' = st.checked
  /\ stPc' = IF stOpts.checkFieldStructure THEN "structure" ELSE "done"
  /\ UNCHANGED <<stData, stUserOpts, stTypes>>
  /\ UNCHANGED <<dlVars, nameSim, sfVars, fnVars, ocVars>>

\* issues.push(...this.checkFieldStructures(types, options)); return issues
StStructurePass ==
  /\ stPc = "structure"
  /\ stIssues' = stIssues \o checkFieldStructures(stTypes, stOpts)
  /\ stPc' = "done"
  /\ UNCHANGED <<stData, stUserOpts, stTypes, stChecked>>
  /\ UNCHANGED <<dlVars, nameSim, sfVars, fnVars, ocVars>>

StNext == StFilter \/ StNamePass \/ StStructurePass

SpecST == StInit /\ [][StNext]_vars

(***************************************************************************)
(* compareParams and compareFields called on their own                     *)
(***************************************************************************)

\* Most parameters of one list, most fields of one list.
MaxParams == 2

MaxFields == 2

ParamPool == {Param(n, t) : n \in {NameA, NameB}, t \in {"", "string", "number"}}

FieldPool == {Field(n, t) : n \in {"a", "b", "c"}, t \in {"string", "number"}}

\* The lists of at most max elements of a pool.
ListsOf(pool, max) == UNION {[1..k -> pool] : k \in 0..max}

CpInit ==
  /\ fnName = "compareParams"
  /\ fnArgs \in ListsOf(ParamPool, MaxParams) \X ListsOf(ParamPool, MaxParams)
  /\ fnResult = <<>>
  /\ nameSim \in [{{NameA, NameB}} -> NameLevels \cup {Score(80)}]
  /\ DlIdle
  /\ SfIdle
  /\ StIdle
  /\ OcIdle

CfInit ==
  /\ fnName = "compareFields"
  /\ fnArgs \in ListsOf(FieldPool, MaxFields) \X ListsOf(FieldPool, MaxFields)
  /\ fnResult = <<>>
  /\ nameSim = <<>>
  /\ DlIdle
  /\ SfIdle
  /\ StIdle
  /\ OcIdle

\* The call compareParams(paramsA, paramsB) returns.
CpCall ==
  /\ fnName = "compareParams"
  /\ fnResult = <<>>
  /\ fnResult' = <<compareParams(fnArgs[1], fnArgs[2])>>
  /\ UNCHANGED <<fnName, fnArgs, dlVars, nameSim, sfVars, stVars, ocVars>>

\* The call compareFields(fieldsA, fieldsB) returns.
CfCall ==
  /\ fnName = "compareFields"
  /\ fnResult = <<>>
  /\ fnResult' = <<compareFields(fnArgs[1], fnArgs[2])>>
  /\ UNCHANGED <<fnName, fnArgs, dlVars, nameSim, sfVars, stVars, ocVars>>

SpecCompareParams == CpInit /\ [][CpCall]_vars

SpecCompareFields == CfInit /\ [][CfCall]_vars

\* One of the three pairwise linters is run on one snapshot.
LintInit == DlFilterInit \/ SfInit \/ StInit

LintNext == DlNext \/ SfNext \/ StNext

SpecLint == LintInit /\ [][LintNext]_vars

(***************************************************************************)
(* Snapshots with malformed entities                                       *)
(***************************************************************************)

\* Most entities of one such snapshot.
MaxMalformed == 3

\* The entity e with the property prop undefined.
Without(e, prop) == [e EXCEPT !.missing = @ \cup {prop}]

\* Two eligible functions, and functions with an undefined body, an empty
\* body and an empty name.
DlMalformedPool ==
  {FunctionInfo(NameFoo, PathA, 2, BodyX),
   FunctionInfo(NameBar, PathB, 1, BodyXw),
   Without(FunctionInfo(NameBaz, PathB, 3, <<>>), "body"),
   FunctionInfo(NameBaz, PathA, 5, <<>>),
   FunctionInfo(NameNone, PathA, 7, BodyX)}

SfMalformedPool ==
  {SfFunction(NameRun, PathA, 1, BodyShort, <<Param(NameA, "")>>),
   SfFunction(NameRuns, PathB, 9, BodyShort, <<>>),
   Without(SfFunction(NameRun, PathB, 1, <<>>, <<>>), "body"),
   SfFunction(NameRun, PathB, 5, <<>>, <<>>),
   Without(SfFunction(NameNone, PathA, 9, <<>>, <<>>), "body")}

StMalformedPool ==
  {TypeInfo(NameUsr, PathA, 1, <<Field("a", "string"), Field("b", "number")>>),
   TypeInfo(NameUsrs, PathB, 7, <<Field("a", "string"), Field("b", "number")>>),
   Without(TypeInfo(NameAcct, PathB, 9, <<>>), "fields"),
   TypeInfo(NameAcct, PathA, 3, <<>>),
   Without(TypeInfo(NameNone, PathB, 3, <<>>), "fields")}

\* One of the three linters is called on a snapshot that may hold malformed
\* entities, with the default options or with the malformed name ignored.
MalformedInit ==
  \/ DlInitFrom(DlMalformedPool, {<<>>, [ignoreFunctions |-> <<NameBaz>>]}, MaxMalformed)
  \/ /\ sfData \in EntityLists(SfMalformedPool, MaxMalformed)
     /\ sfUserOpts \in {<<>>, [ignoreFunctions |-> <<NameRun>>]}
     /\ nameSim \in [{{NameRun, NameRuns}} -> NameLevels]
     /\ sfPc = "start"
     /\ sfFunctions = <<>>
     /\ sfChecked = {}
     /\ sfIssues = <<>>
     /\ DlIdle
     /\ StIdle
     /\ FnIdle
     /\ OcIdle
  \/ /\ stData \in EntityLists(StMalformedPool, MaxMalformed)
     /\ stUserOpts \in {<<>>, [ignoreTypes |-> <<NameAcct>>]}
     /\ nameSim \in [{{NameUsr, NameUsrs}} -> NameLevels]
     /\ stPc = "start"
     /\ stTypes = <<>>
     /\ stChecked = {}
     /\ stIssues = <<>>
     /\ DlIdle
     /\ SfIdle
     /\ FnIdle
     /\ OcIdle

SpecMalformed == MalformedInit /\ [][LintNext]_vars

(***************************************************************************)
(* Claims on duplicate-logic                                               *)
(***************************************************************************)

DlDone == dlPc = "done"

DlLoc(func) == <<func.location.file, func.location.line>>

\* The index pairs of the prepared functions that qualify for a report: they
\* pass shouldCompare and are hash-equal or similar enough.
DlQualifying ==
  {ij \in (1..Len(dlFunctions)) \X (1..Len(dlFunctions)) :
     /\ ij[1] < ij[2]
     /\ shouldCompare(dlFunctions[ij[1]], dlFunctions[ij[2]], dlOpts)
     /\ \/ dlFunctions[ij[1]].hash = dlFunctions[ij[2]].hash
        \/ compareCodeBodies(dlFunctions[ij[1]].normalized,
                             dlFunctions[ij[2]].normalized).similarity
             >= dlOpts.similarityThreshold}

\* The issues that report the two functions f and g, in either order.
DlIssuesOn(f, g) ==
  {k \in 1..Len(dlIssues) :
     {<<dlPairs[k].func1, dlIssues[k].location>>,
      <<dlPairs[k].func2, dlIssues[k].relatedLocations[1]>>}
       \in {{<<f, f.location>>, <<g, g.location>>}}}

C1_Pre ==
  /\ DlDone
  /\ Len(dlFunctions) >= 2
  /\ \A i, j \in 1..Len(dlFunctions) :
       /\ dlFunctions[i].hash = dlFunctions[j].hash
       /\ i # j => DlLoc(dlFunctions[i]) # DlLoc(dlFunctions[j])
  /\ dlOpts.crossFile
  /\ ~dlOpts.differentNamesOnly
  /\ (Len(dlFunctions) * (Len(dlFunctions) - 1)) \div 2 <= dlOpts.maxPairs

\* C1: n >= 2 eligible functions with one body hash and pairwise distinct
\* locations, crossFile on, differentNamesOnly off and n(n-1)/2 <= maxPairs
\* give exactly n(n-1)/2 issues, one for each unordered pair, in whatever
\* order the files and functions arrive (every order is an initial state).
C1_PairDedup ==
  C1_Pre =>
    /\ Len(dlIssues) = (Len(dlFunctions) * (Len(dlFunctions) - 1)) \div 2
    /\ \A i, j \in 1..Len(dlFunctions) :
         i < j => Cardinality(DlIssuesOn(dlFunctions[i], dlFunctions[j])) = 1

C1_Witness == C1_Pre /\ Len(dlFunctions) = 3 /\ Len(dlIssues) = 3

\* C2 (as claimed): at most maxPairs issues; exactly maxPairs when more than
\* maxPairs pairs qualify; issues in order of non-increasing similarity.
C2_CapAsClaimed ==
  (DlDone /\ dlOpts.maxPairs >= 0) =>
    /\ Len(dlIssues) <= dlOpts.maxPairs
    /\ Cardinality(DlQualifying) > dlOpts.maxPairs => Len(dlIssues) = dlOpts.maxPairs
    /\ \A k \in 1..(Len(dlIssues) - 1) :
         dlIssues[k].context.similarity >= dlIssues[k + 1].context.similarity

\* The parts of C2 that do not count pairs: the cap and the order.
C2_CapAndOrder ==
  (DlDone /\ dlOpts.maxPairs >= 0) =>
    /\ Len(dlIssues) <= dlOpts.maxPairs
    /\ \A k \in 1..(Len(dlIssues) - 1) :
         dlIssues[k].context.similarity >= dlIssues[k + 1].context.similarity

\* C3: the list findDuplicates returns holds no unordered pair of functions
\* twice; in particular the near-duplicate pass adds no pair the exact pass
\* recorded.
C3_NoPairTwice ==
  dlPc \in {"near", "sort", "done"} =>
    \A k, l \in 1..Len(dlPairs) :
      k # l => {dlPairs[k].func1, dlPairs[k].func2} # {dlPairs[l].func1, dlPairs[l].func2}

\* Both passes have recorded pairs, and the call has returned them.
C3_Witness ==
  /\ DlDone
  /\ \E k, l \in 1..Len(dlPairs) :
       /\ dlPairs[k].func1.hash = dlPairs[k].func2.hash
       /\ dlPairs[l].func1.hash # dlPairs[l].func2.hash

\* The functions of the snapshot, file by file.
RECURSIVE DlAllFunctions(_)
DlAllFunctions(files) ==
  IF files = <<>> THEN <<>> ELSE Head(files).functions \o DlAllFunctions(Tail(files))

\* The snapshot holds exactly two functions, in different files, whose bodies
\* are the same after whitespace normalization, and the options are the
\* defaults.
C10_Scenario ==
  LET all == DlAllFunctions(dlData.files)
  IN  /\ DlDone
      /\ dlUserOpts = <<>>
      /\ Len(all) = 2
      /\ all[1].location.file # all[2].location.file
      /\ normalizeCode(all[1].body) = normalizeCode(all[2].body)

\* Default eligibility of a function, written out: a body of at least 50
\* characters on at least 3 lines, in a file that is no test or spec file.
C10_Eligible(func) ==
  /\ TextLen(func.body) >= 50
  /\ CountUnit(func.body, 10) + 1 >= 3
  /\ ~EndsWith(func.location.file, <<46, 116, 101, 115, 116, 46, 116, 115>>)
  /\ ~EndsWith(func.location.file, <<46, 115, 112, 101, 99, 46, 116, 115>>)
  /\ ~EndsWith(func.location.file, <<95, 116, 101, 115, 116, 46, 116, 115>>)

C10_OneExactIssue ==
  /\ Len(dlIssues) = 1
  /\ dlIssues[1].kind = <<"duplicate-logic", "exact-duplicate">>
  /\ dlIssues[1].context.similarity = 100

DlPasses(f, o) ==
  /\ ~Includes(o.ignoreFunctions, f.name)
  /\ \A k \in 1..Len(o.ignoreFunctionPatterns) : ~RegExpTest(o.ignoreFunctionPatterns[k], f.name)
  /\ TextLen(f.body) >= o.minBodyLength
  /\ CountUnit(f.body, 10) + 1 >= o.minBodyLines
  /\ \A k \in 1..Len(o.ignoreFilePatterns) : ~RegExpTest(o.ignoreFilePatterns[k], f.location.file)

\* The same for a function under the similar-functions options o.
SfPasses(f, o) ==
  /\ Len(f.name) >= o.minNameLength
  /\ ~Includes(o.ignoreFunctions, f.name)
  /\ \A k \in 1..Len(o.ignorePatterns) : ~RegExpTest(o.ignorePatterns[k], f.name)
  /\ CountUnit(f.body, 10) + 1 >= o.minFunctionLines

\* The same for a type under the similar-types options o.
StPasses(t, o) ==
  /\ Len(t.name) >= o.minNameLength
  /\ ~Includes(o.ignoreTypes, t.name)
  /\ \A k \in 1..Len(o.ignorePatterns) : ~RegExpTest(o.ignorePatterns[k], t.name)
  /\ Len(t.fields) >= o.minFieldCount

\* The entities an issue names: those of the snapshot at the issue's primary
\* or related location that carry the name the issue gives for that side.
DlNamedBy(issue) ==
  LET all == DlAllFunctions(dlData.files)
  IN  {all[i] : i \in {i \in 1..Len(all) :
         \/ all[i].location = issue.location
              /\ DlDisplayName(all[i]) = issue.context.function1
         \/ all[i].location = issue.relatedLocations[1]
              /\ DlDisplayName(all[i]) = issue.context.function2}}

SfNamedBy(issue) ==
  {sfData[i] : i \in {i \in 1..Len(sfData) :
     \/ sfData[i].location = issue.location /\ sfData[i].name = issue.context.funcA.name
     \/ sfData[i].location = issue.relatedLocations[1]
          /\ sfData[i].name = issue.context.funcB.name}}

StNamedBy(issue) ==
  LET sameName == issue.kind[2] \in {"duplicate-type", "same-name-different-structure"}
      nameA == IF sameName THEN issue.context.typeA.name ELSE issue.context.typeA
      nameB == IF sameName THEN issue.context.typeB.name ELSE issue.context.typeB
  IN  {stData[i] : i \in {i \in 1..Len(stData) :
         \/ stData[i].location = issue.location /\ stData[i].name = nameA
         \/ stData[i].location = issue.relatedLocations[1] /\ stData[i].name = nameB}}

IssuesOn(issues, a, b) ==
  {k \in 1..Len(issues) :
     \/ issues[k].location = a.location /\ issues[k].relatedLocations = <<b.location>>
     \/ issues[k].location = b.location /\ issues[k].relatedLocations = <<a.location>>}

\* The kinds of those issues.
KindsOn(issues, a, b) == {issues[k].kind[2] : k \in IssuesOn(issues, a, b)}

\* The pairs i < j of a list whose entities are both eligible and lie in
\* different files.
CrossFilePairs(data, Passes(_)) ==
  {ij \in (1..Len(data)) \X (1..Len(data)) :
     /\ ij[1] < ij[2]
     /\ Passes(data[ij[1]]) /\ Passes(data[ij[2]])
     /\ data[ij[1]].location.file # data[ij[2]].location.file}

SfEligible(f) == SfPasses(f, sfOpts)

StEligible(t) == StPasses(t, stOpts)

\* C5: two eligible functions of the same name in different files get exactly
\* one issue, under every setting of the thresholds: duplicate-function when
\* compareParams of their parameter lists is 1, same-name-different-params
\* otherwise.
C5_SameNameFunctions ==
  sfPc = "done" =>
    \A ij \in CrossFilePairs(sfData, SfEligible) :
      LET a == sfData[ij[1]]
          b == sfData[ij[2]]
      IN  a.name = b.name =>
            /\ Cardinality(IssuesOn(sfIssues, a, b)) = 1
            /\ KindsOn(sfIssues, a, b) =
                 {IF compareParams(a.params, b.params) = Score(100)
                  THEN "duplicate-function" ELSE "same-name-different-params"}

\* A function of one parameter and a function of the same name with two
\* parameters, in different files, have been reported.
C5_Witness ==
  /\ sfPc = "done"
  /\ \E ij \in CrossFilePairs(sfData, SfEligible) :
       /\ sfData[ij[1]].name = sfData[ij[2]].name
       /\ Len(sfData[ij[1]].params) = 1
       /\ Len(sfData[ij[2]].params) = 2
       /\ KindsOn(sfIssues, sfData[ij[1]], sfData[ij[2]]) = {"same-name-different-params"}

\* C6: two eligible types of the same name in different files get exactly one
\* issue, whatever the name thresholds: duplicate-type when compareFields'
\* combined score is above 0.9, same-name-different-structure otherwise.
C6_SameNameTypes ==
  stPc = "done" =>
    \A ij \in CrossFilePairs(stData, StEligible) :
      LET a == stData[ij[1]]
          b == stData[ij[2]]
      IN  a.name = b.name =>
            /\ Cardinality(IssuesOn(stIssues, a, b)) = 1
            /\ KindsOn(stIssues, a, b) =
                 {IF compareFields(a.fields, b.fields).combined > Score(90)
                  THEN "duplicate-type" ELSE "same-name-different-structure"}

\* Both kinds have been reported in one run with the structure pass on.
C6_Witness ==
  /\ stPc = "done"
  /\ stOpts.checkFieldStructure
  /\ \E ij \in CrossFilePairs(stData, StEligible) :
       KindsOn(stIssues, stData[ij[1]], stData[ij[2]]) = {"duplicate-type"}
  /\ \E ij \in CrossFilePairs(stData, StEligible) :
       KindsOn(stIssues, stData[ij[1]], stData[ij[2]]) = {"same-name-different-structure"}

NameKinds == {"similar-name-high", "similar-name-medium"}

\* The tiers of one pair a, b under the options o, as C7 states them (floor
\* FALSE) and with minSimilarity as a floor under both tiers (floor TRUE).
\* alone: the linter has one pass only, so the pair gets no other issue.
TiersHold(issues, a, b, o, floor, alone) ==
  LET s == compareIdentifiers(a.name, b.name).similarity
      reach == ~floor \/ s >= o.minSimilarity
      kinds == KindsOn(issues, a, b)
  IN  /\ "similar-name-high" \in kinds <=> (reach /\ s >= o.errorThreshold)
      /\ "similar-name-medium" \in kinds
           <=> (reach /\ s >= o.warningThreshold /\ s < o.errorThreshold)
      /\ s < o.warningThreshold => kinds \cap NameKinds = {}
      /\ s < o.minSimilarity => kinds \cap NameKinds = {}
      /\ (alone /\ s < o.minSimilarity) => kinds = {}
      /\ Cardinality({k \in IssuesOn(issues, a, b) : issues[k].kind[2] \in NameKinds}) <= 1

TiersHoldEverywhere(floor) ==
  /\ sfPc = "done" =>
       \A ij \in CrossFilePairs(sfData, SfEligible) :
         sfData[ij[1]].name # sfData[ij[2]].name
           => TiersHold(sfIssues, sfData[ij[1]], sfData[ij[2]], sfOpts, floor, TRUE)
  /\ stPc = "done" =>
       \A ij \in CrossFilePairs(stData, StEligible) :
         stData[ij[1]].name # stData[ij[2]].name
           => TiersHold(stIssues, stData[ij[1]], stData[ij[2]], stOpts, floor, FALSE)

\* C7 (as claimed): for eligible entities of different names in different
\* files with identifier similarity s, a similar-name-high issue iff
\* s >= errorThreshold, a similar-name-medium issue iff
\* warningThreshold <= s < errorThreshold, none below warningThreshold, and
\* no issue when s < minSimilarity.
C7_AsClaimed == TiersHoldEverywhere(FALSE)

\* C7 (amended): the same with minSimilarity as a floor under both tiers: a
\* similar-name-high issue iff s >= minSimilarity and s >= errorThreshold, a
\* similar-name-medium issue iff s >= minSimilarity and
\* warningThreshold <= s < errorThreshold.
C7_TiersAboveFloor == TiersHoldEverywhere(TRUE)

\* similar-types, run with minSimilarity above warningThreshold, has reported
\* one pair as similar-name-high and left unreported a pair whose score lies
\* between warningThreshold and minSimilarity.
C7_Witness ==
  /\ stPc = "done"
  /\ stOpts.minSimilarity > stOpts.warningThreshold
  /\ \E ij \in CrossFilePairs(stData, StEligible) :
       KindsOn(stIssues, stData[ij[1]], stData[ij[2]]) = {"similar-name-high"}
  /\ \E ij \in CrossFilePairs(stData, StEligible) :
       LET s == compareIdentifiers(stData[ij[1]].name, stData[ij[2]].name).similarity
       IN  /\ s >= stOpts.warningThreshold
           /\ s < stOpts.minSimilarity
           /\ KindsOn(stIssues, stData[ij[1]], stData[ij[2]]) \cap NameKinds = {}

(***************************************************************************)
(* Claims on compareParams and compareFields                               *)
(***************************************************************************)

\* C8: compareParams returns 1 for two empty lists, 0 for lists of different
\* lengths, and otherwise the share of positions that match: both parameters
\* declare a type and the types are equal, or neither declares one and the
\* names score above 0.8; a position with a type on one side only never
\* matches.
C8_CompareParams ==
  (fnName = "compareParams" /\ fnResult # <<>>) =>
    LET A == fnArgs[1]
        B == fnArgs[2]
        r == fnResult[1]
        Declares(p) == p.type # ""
        Matches(i) ==
          \/ Declares(A[i]) /\ Declares(B[i]) /\ A[i].type = B[i].type
          \/ /\ ~Declares(A[i]) /\ ~Declares(B[i])
             /\ compareIdentifiers(A[i].name, B[i].name).similarity > Score(80)
    IN  /\ (Len(A) = 0 /\ Len(B) = 0) => r = Score(100)
        /\ Len(A) # Len(B) => r = 0
        /\ (Len(A) = Len(B) /\ Len(A) > 0) =>
             /\ r * Len(A) = Cardinality({i \in 1..Len(A) : Matches(i)}) * Score(100)
             /\ \A i \in 1..Len(A) : Declares(A[i]) # Declares(B[i]) => ~Matches(i)

\* Two lists of two parameters: one position matches by type, the other has
\* a type on one side only; the result is 1/2.
C8_Witness ==
  /\ fnName = "compareParams"
  /\ fnResult = <<Score(50)>>
  /\ Len(fnArgs[1]) = 2
  /\ fnArgs[1][1].type # "" /\ fnArgs[1][1].type = fnArgs[2][1].type
  /\ fnArgs[1][2].type = "" /\ fnArgs[2][2].type # ""

\* C9: compareFields returns nameSimilarity = the Jaccard index of the two
\* sets of field names, typeSimilarity = the share of the common names whose
\* declared types are equal (a name declared twice in a list counts with its
\* first declaration), combined = 0.6 nameSimilarity + 0.4 typeSimilarity;
\* 1, 1, 1 for two empty lists and 0, 0, 0 when one list is empty.  All three
\* lie in [0, 1]; two identical one-field lists give combined 1, two lists
\* without a common name give combined 0.
C9_CompareFields ==
  (fnName = "compareFields" /\ fnResult # <<>>) =>
    LET A == fnArgs[1]
        B == fnArgs[2]
        r == fnResult[1]
        NamesIn(L) == {L[i].name : i \in 1..Len(L)}
        TypeIn(L, n) ==
          L[CHOOSE i \in 1..Len(L) : L[i].name = n /\ \A j \in 1..(i - 1) : L[j].name # n].type
        common == NamesIn(A) \cap NamesIn(B)
        same == {n \in common : TypeIn(A, n) = TypeIn(B, n)}
    IN  /\ (Len(A) = 0 /\ Len(B) = 0) =>
             r = [nameSimilarity |-> Score(100), typeSimilarity |-> Score(100),
                  combined |-> Score(100)]
        /\ ((Len(A) = 0) # (Len(B) = 0)) =>
             r = [nameSimilarity |-> 0, typeSimilarity |-> 0, combined |-> 0]
        /\ (Len(A) > 0 /\ Len(B) > 0) =>
             /\ r.nameSimilarity * Cardinality(NamesIn(A) \cup NamesIn(B))
                  = Cardinality(common) * Score(100)
             /\ r.typeSimilarity * Cardinality(common) = Cardinality(same) * Score(100)
             /\ common = {} => r.typeSimilarity = 0
             /\ 10 * r.combined = 6 * r.nameSimilarity + 4 * r.typeSimilarity
        /\ \A v \in {r.nameSimilarity, r.typeSimilarity, r.combined} : 0 <= v /\ v <= Score(100)
        /\ (Len(A) = 1 /\ A = B) => r.combined = Score(100)
        /\ common = {} /\ Len(A) + Len(B) > 0 => r.combined = 0

\* Two lists of the same two names, one of them with equal types:
\* 0.6 * 1 + 0.4 * 1/2 = 0.8.
C9_Witness ==
  /\ fnName = "compareFields"
  /\ fnResult # <<>>
  /\ Len(fnArgs[1]) = 2
  /\ fnResult[1].nameSimilarity = Score(100)
  /\ fnResult[1].typeSimilarity = Score(50)
  /\ fnResult[1].combined = Score(80)

(***************************************************************************)
(* Claims on same-file pairs, ordering and pair restrictions               *)
(***************************************************************************)

\* C11 (as claimed): with default options the near-duplicate pass records no
\* pair of functions of one file whose names differ, so no issue reports
\* such a pair.
C11_AsClaimed ==
  (DlDone /\ dlUserOpts = <<>>) =>
    \A k \in 1..Len(dlPairs) :
      ~(/\ dlPairs[k].func1.hash # dlPairs[k].func2.hash
        /\ dlPairs[k].func1.location.file = dlPairs[k].func2.location.file
        /\ dlPairs[k].func1.name # dlPairs[k].func2.name)

\* The snapshot holds exactly two functions, both prepared, in one file at
\* different lines under different names, with different hashes and a body
\* similarity at or above the threshold; the options are the defaults.
C11_Scenario ==
  /\ DlDone
  /\ dlUserOpts = <<>>
  /\ Len(DlAllFunctions(dlData.files)) = 2
  /\ Len(dlFunctions) = 2
  /\ dlFunctions[1].location.file = dlFunctions[2].location.file
  /\ dlFunctions[1].location.line # dlFunctions[2].location.line
  /\ dlFunctions[1].name # dlFunctions[2].name
  /\ dlFunctions[1].hash # dlFunctions[2].hash
  /\ compareCodeBodies(dlFunctions[1].normalized, dlFunctions[2].normalized).similarity
       >= dlOpts.similarityThreshold

\* C11 (amended): duplicate-logic has no same-file skip; two such functions
\* yield exactly one issue, similar-implementation below a similarity of
\* 0.99 and exact-duplicate from there on.
C11_SameFileReported ==
  C11_Scenario =>
    LET sim == compareCodeBodies(dlFunctions[1].normalized,
                                 dlFunctions[2].normalized).similarity
    IN  /\ Len(dlIssues) = 1
        /\ dlIssues[1].location = dlFunctions[1].location
        /\ dlIssues[1].relatedLocations = <<dlFunctions[2].location>>
        /\ dlIssues[1].context.similarity = RoundPct(sim)
        /\ dlIssues[1].kind = <<"duplicate-logic",
                                IF sim >= Score(99) THEN "exact-duplicate"
                                ELSE "similar-implementation">>

\* Two named functions of one file, 90% similar, have been reported.
C11_Witness ==
  /\ C11_Scenario
  /\ dlFunctions[1].name # <<>> /\ dlFunctions[2].name # <<>>
  /\ Len(dlIssues) = 1
  /\ dlIssues[1].kind = <<"duplicate-logic", "similar-implementation">>
  /\ dlIssues[1].context.similarity = 90

\* The name-similarity issues of a list are in order of non-increasing
\* similarity (the issues of the other kinds, which carry no identifier
\* similarity, are not compared).
NameIssuesOrdered(issues) ==
  \A k, l \in 1..Len(issues) :
    (k < l /\ issues[k].kind[2] \in NameKinds /\ issues[l].kind[2] \in NameKinds)
      => issues[k].context.similarity >= issues[l].context.similarity

\* C12 (as claimed): the lists similar-functions.lint and similar-types.lint
\* return are ordered by non-increasing similarity of the reported pairs.
C12_AsClaimed ==
  /\ sfPc = "done" => NameIssuesOrdered(sfIssues)
  /\ stPc = "done" => NameIssuesOrdered(stIssues)

\* An entity the claim calls malformed: its body is undefined or empty, its
\* fields are undefined or none, or (for the two name linters) its name is
\* empty.
MalformedFunction(f) == "body" \in f.missing \/ f.body = <<>>

MalformedType(t) == "fields" \in t.missing \/ t.fields = <<>> \/ t.name = <<>>

\* The part of C13 on the entities that are left out: no issue of a call
\* that returns names a malformed entity.
C13_ExcludedWhenReturns ==
  /\ \A k \in 1..Len(dlIssues) : \A f \in DlNamedBy(dlIssues[k]) : ~MalformedFunction(f)
  /\ \A k \in 1..Len(sfIssues) :
       \A f \in SfNamedBy(sfIssues[k]) : ~MalformedFunction(f) /\ f.name # <<>>
  /\ \A k \in 1..Len(stIssues) : \A t \in StNamedBy(stIssues[k]) : ~MalformedType(t)

\* C13 (as claimed): lint of the three linters never throws on a malformed
\* entity; the entity is left out and the issues of the others are returned.
C13_AsClaimed ==
  /\ dlPc # "thrown" /\ sfPc # "thrown" /\ stPc # "thrown"
  /\ C13_ExcludedWhenReturns

\* The (file, line, name) of an entity.
EntityId(e) == <<e.location.file, e.location.line, e.name>>

\* Key(_, _) is symmetric and gives two pairs of the entities of the list
\* one key only if they are the same unordered pair.
KeyIdentifiesPairs(Key(_, _), entities) ==
  \A i, j, k, l \in 1..Len(entities) :
    (EntityId(entities[i]) # EntityId(entities[j])
       /\ EntityId(entities[k]) # EntityId(entities[l]))
      => /\ Key(entities[i], entities[j]) = Key(entities[j], entities[i])
         /\ Key(entities[i], entities[j]) = Key(entities[k], entities[l])
              => {EntityId(entities[i]), EntityId(entities[j])}
                   = {EntityId(entities[k]), EntityId(entities[l])}

\* C14 (as claimed): in every dedup set of the three linters the key of a
\* pair does not depend on the order of the two entities, and two pairs get
\* one key only if they consist of the same two entities (file, line, name).
C14_AsClaimed ==
  /\ KeyIdentifiesPairs(pairKey, dlFunctions)
  /\ KeyIdentifiesPairs(NamedPairKey, sfFunctions)
  /\ KeyIdentifiesPairs(NamedPairKey, stTypes)
  /\ KeyIdentifiesPairs(StructureKey, stTypes)

\* The part of C14 on the keys of similar-functions and of the name pass of
\* similar-types, which are built from file, line and name.
C14_NamedKeysIdentify ==
  /\ KeyIdentifiesPairs(NamedPairKey, sfFunctions)
  /\ KeyIdentifiesPairs(NamedPairKey, stTypes)

\* A path of the test/spec conventions: it ends in _test.ts, .test.ts or
\* .spec.ts, or starts with tests/.
IsTestPath(path) ==
  \/ EndsWith(path, <<95, 116, 101, 115, 116, 46, 116, 115>>)
  \/ EndsWith(path, <<46, 116, 101, 115, 116, 46, 116, 115>>)
  \/ EndsWith(path, <<46, 115, 112, 101, 99, 46, 116, 115>>)
  \/ StartsWith(path, <<116, 101, 115, 116, 115, 47>>)

\* C15 (as claimed): no similar-functions issue has a function of a test or
\* spec file as its primary or related location.
C15_AsClaimed ==
  \A k \in 1..Len(sfIssues) :
    /\ ~IsTestPath(sfIssues[k].location.file)
    /\ ~IsTestPath(sfIssues[k].relatedLocations[1].file)

\* C16: every pair duplicate-logic reports meets the configured
\* restrictions: both functions in one file when crossFile is false,
\* different names when differentNamesOnly is true, and never one (file,
\* line) location for both.
C16_PairRestrictions ==
  DlDone =>
    \A k \in 1..Len(dlIssues) :
      /\ dlIssues[k].location = dlPairs[k].func1.location
      /\ dlIssues[k].relatedLocations = <<dlPairs[k].func2.location>>
      /\ ~dlOpts.crossFile
           => dlIssues[k].location.file = dlIssues[k].relatedLocations[1].file
      /\ dlOpts.differentNamesOnly => dlPairs[k].func1.name # dlPairs[k].func2.name
      /\ dlIssues[k].location # dlIssues[k].relatedLocations[1]

\* With crossFile false a same-file pair has been reported while two
\* hash-equal functions of different files were among the prepared ones.
C16_Witness ==
  /\ DlDone
  /\ ~dlOpts.crossFile
  /\ Len(dlIssues) >= 1
  /\ \E i, j \in 1..Len(dlFunctions) :
       /\ dlFunctions[i].hash = dlFunctions[j].hash
       /\ dlFunctions[i].location.file # dlFunctions[j].location.file

\* C17 (as claimed): similar-types returns no issue of any kind for two
\* types of one file under different names: an issue whose two locations
\* are in one file is an issue of a same-name pair.
C17_AsClaimed ==
  stPc = "done" =>
    \A k \in 1..Len(stIssues) :
      stIssues[k].location.file = stIssues[k].relatedLocations[1].file
        => stIssues[k].kind[2] \in {"duplicate-type", "same-name-different-structure"}

\* The part of C17 on the name pass: no name-similarity issue reports two
\* types of one file.
C17_NoSameFileNameIssue ==
  \A k \in 1..Len(stIssues) :
    stIssues[k].kind[2] \in NameKinds
      => stIssues[k].location.file # stIssues[k].relatedLocations[1].file

(***************************************************************************)
(* Snapshots with three-field types                                        *)
(***************************************************************************)

StFieldsPool ==
  {TypeInfo(NameFoo, PathA, 1,
            <<Field("a", "string"), Field("b", "string"), Field("c", "string")>>),
   TypeInfo(NameBar, PathB, 1,
            <<Field("a", "string"), Field("d", "string"), Field("e", "string")>>),
   TypeInfo(NameBaz, PathB, 5,
            <<Field("a", "string"), Field("b", "string"), Field("c", "string")>>),
   TypeInfo(NameBar, PathA, 5,
            <<Field("a", "number"), Field("b", "string"), Field("d", "string")>>)}

StFieldsInit ==
  /\ stData \in EntityLists(StFieldsPool, MaxStTypes)
  /\ stUserOpts \in {<<>>, [checkFieldStructure |-> FALSE],
                     [fieldSimilarityThreshold |-> Score(20)]}
  /\ nameSim \in [PairsOf({stData[i].name : i \in 1..Len(stData)}) -> NameLevels]
  /\ stPc = "start"
  /\ stTypes = <<>>
  /\ stChecked = {}
  /\ stIssues = <<>>
  /\ DlIdle
  /\ SfIdle
  /\ FnIdle
  /\ OcIdle

SpecSTFields == (StInit \/ StFieldsInit) /\ [][StNext]_vars

(***************************************************************************)
(* Snapshots with type names the common patterns match                     *)
(***************************************************************************)

StNamesPool ==
  LET IUsr == <<73, 85, 115, 114>>
      IUsrs == <<73, 85, 115, 114, 115>>
      Ids == <<73, 100, 115>>
      UsrProps == <<85, 115, 114, 80, 114, 111, 112, 115>>
      UsrOptions == <<85, 115, 114, 79, 112, 116, 105, 111, 110, 115>>
      UsrConfig == <<85, 115, 114, 67, 111, 110, 102, 105, 103>>
      ab == <<Field("a", "string"), Field("b", "number")>>
      ac == <<Field("a", "string"), Field("c", "number")>>
  IN  {TypeInfo(IUsr, PathA, 1, ab),
       TypeInfo(IUsrs, PathB, 1, ac),
       TypeInfo(Ids, PathB, 3, ab),
       TypeInfo(UsrProps, PathA, 5, ab),
       TypeInfo(UsrProps, PathB, 5, ac),
       TypeInfo(UsrOptions, PathA, 7, <<Field("a", "string")>>),
       TypeInfo(UsrConfig, PathB, 9, ab)}

StNamesInit ==
  /\ stData \in EntityLists(StNamesPool, MaxStTypes)
  /\ stUserOpts \in {<<>>, [ignorePatterns |-> CommonPatterns],
                     [ignorePatterns |-> <<CommonPatterns[2]>>, minFieldCount |-> 1]}
  /\ nameSim \in [PairsOf({stData[i].name : i \in 1..Len(stData)}) -> {Score(40), Score(90)}]
  /\ stPc = "start"
  /\ stTypes = <<>>
  /\ stChecked = {}
  /\ stIssues = <<>>
  /\ DlIdle
  /\ SfIdle
  /\ FnIdle
  /\ OcIdle

SpecSTNames == StNamesInit /\ [][StNext]_vars

(***************************************************************************)
(* Claims on structure issues, name exemptions and same-name pairs         *)
(***************************************************************************)

FieldNames(type) == {type.fields[i].name : i \in 1..Len(type.fields)}

\* The scenario of C18: two types of three fields each that share exactly
\* one field name, as Foo {a, b, c} and Bar {a, d, e}.
C18_Scenario(typeA, typeB) ==
  /\ Cardinality(FieldNames(typeA)) = 3
  /\ Cardinality(FieldNames(typeB)) = 3
  /\ Cardinality(FieldNames(typeA) \cap FieldNames(typeB)) = 1

\* C18: every similar-structure issue of a finished similar-types run is about
\* two eligible types of the snapshot whose names differ and whose
\* compareFields(...).combined is at least fieldSimilarityThreshold, and the
\* run had checkFieldStructure enabled; with checkFieldStructure false there
\* is no such issue; under the default threshold 0.8 no such issue is about
\* two three-field types sharing one field name.
C18_SimilarStructure ==
  stPc = "done" =>
    /\ \A k \in 1..Len(stIssues) :
         stIssues[k].kind[2] = "similar-structure" =>
           /\ stOpts.checkFieldStructure
           /\ stIssues[k].context.typeA # stIssues[k].context.typeB
           /\ \E i, j \in 1..Len(stData) :
                /\ stData[i].location = stIssues[k].location
                /\ stData[i].name = stIssues[k].context.typeA
                /\ stData[j].location = stIssues[k].relatedLocations[1]
                /\ stData[j].name = stIssues[k].context.typeB
                /\ StPasses(stData[i], stOpts) /\ StPasses(stData[j], stOpts)
                /\ compareFields(stData[i].fields, stData[j].fields).combined
                     >= stOpts.fieldSimilarityThreshold
                /\ (stOpts.fieldSimilarityThreshold = Score(80)
                      => ~C18_Scenario(stData[i], stData[j]))
    /\ (~stOpts.checkFieldStructure =>
          \A k \in 1..Len(stIssues) : stIssues[k].kind[2] # "similar-structure")

\* A finished default run that reports one pair for its structure while the
\* snapshot also holds a pair of the scenario, which it does not report.
C18_Witness ==
  /\ stPc = "done"
  /\ stUserOpts = <<>>
  /\ \E k \in 1..Len(stIssues) : stIssues[k].kind[2] = "similar-structure"
  /\ \E i, j \in 1..Len(stTypes) :
       /\ C18_Scenario(stTypes[i], stTypes[j])
       /\ compareIdentifiers(stTypes[i].name, stTypes[j].name).similarity <= Score(50)
       /\ \A k \in 1..Len(stIssues) :
            {stIssues[k].location, stIssues[k].relatedLocations[1]}
              # {stTypes[i].location, stTypes[j].location}

\* A name one of the four common patterns matches.
CommonName(name) ==
  \E k \in 1..Len(CommonPatterns) : RegExpTest(CommonPatterns[k], name)

\* The locations an issue reports.
StIssueLocations(issue) == {issue.location, issue.relatedLocations[1]}

SameNameKinds ==
  {"duplicate-function", "same-name-different-params",
   "duplicate-type", "same-name-different-structure"}

\* C20 (as claimed): every issue of kind duplicate-function,
\* same-name-different-params, duplicate-type or
\* same-name-different-structure reports two locations in different files.
C20_AsClaimed ==
  /\ \A k \in 1..Len(sfIssues) :
       sfIssues[k].kind[2] \in SameNameKinds
         => sfIssues[k].location.file # sfIssues[k].relatedLocations[1].file
  /\ \A k \in 1..Len(stIssues) :
       stIssues[k].kind[2] \in SameNameKinds
         => stIssues[k].location.file # stIssues[k].relatedLocations[1].file

(***************************************************************************)
(* The helpers and the two name linters together                           *)
(***************************************************************************)

PairInit == SfInit \/ StInit \/ CpInit \/ CfInit

PairNext == SfNext \/ StNext \/ CpCall \/ CfCall

SpecPair == PairInit /\ [][PairNext]_vars

(***************************************************************************)
(* Claims on symmetry, purity and issue ids                                *)
(***************************************************************************)

Reverse(s) == [i \in 1..Len(s) |-> s[Len(s) + 1 - i]]

\* What similar-functions returns for the filtered list functions.
SfIssuesOf(functions, options) ==
  SfLoop([issues |-> <<>>, checked |-> {}], functions,
         IndexPairs(Len(functions)), options).issues

\* What similar-types returns for the filtered list types.
StIssuesOf(types, options) ==
  StLoop([issues |-> <<>>, checked |-> {}], types, IndexPairs(Len(types)), options).issues
    \o (IF options.checkFieldStructure THEN checkFieldStructures(types, options) ELSE <<>>)

\* An issue with its two sides exchanged: primary and related location, and
\* the two entities of the context; kind and scores stay.
SfSwapped(issue) ==
  [issue EXCEPT !.location = issue.relatedLocations[1],
                !.relatedLocations = <<issue.location>>,
                !.context.funcA = issue.context.funcB,
                !.context.funcB = issue.context.funcA]

StSwapped(issue) ==
  [issue EXCEPT !.location = issue.relatedLocations[1],
                !.relatedLocations = <<issue.location>>,
                !.context.typeA = issue.context.typeB,
                !.context.typeB = issue.context.typeA]

\* C21: compareParams(a, b) = compareParams(b, a) and compareFields(a, b) =
\* compareFields(b, a); for two eligible entities A and B, similar-functions
\* and similar-types return on [B, A] the issues they return on [A, B], with
\* the same kinds and scores and with the two sides exchanged.
C21_Symmetry ==
  /\ (fnName = "compareParams" /\ fnResult # <<>>)
       => fnResult[1] = compareParams(fnArgs[2], fnArgs[1])
  /\ (fnName = "compareFields" /\ fnResult # <<>>)
       => fnResult[1] = compareFields(fnArgs[2], fnArgs[1])
  /\ (sfPc = "done" /\ Len(sfFunctions) = 2) =>
       /\ sfIssues = SfIssuesOf(sfFunctions, sfOpts)
       /\ SfIssuesOf(Reverse(sfFunctions), sfOpts)
            = [k \in 1..Len(sfIssues) |-> SfSwapped(sfIssues[k])]
  /\ (stPc = "done" /\ Len(stTypes) = 2) =>
       /\ stIssues = StIssuesOf(stTypes, stOpts)
       /\ StIssuesOf(Reverse(stTypes), stOpts)
            = [k \in 1..Len(stIssues) |-> StSwapped(stIssues[k])]

\* A finished run of similar-functions on two eligible functions that
\* returned an issue.
C21_Witness ==
  /\ sfPc = "done"
  /\ Len(sfFunctions) = 2
  /\ Len(sfIssues) = 1
  /\ sfFunctions[1].params # sfFunctions[2].params

(***************************************************************************)
(* Repeated lint calls of similar-types on one snapshot and one config     *)
(* object.  A pattern of config.options.ignorePatterns is a RegExp object: *)
(* with the g flag, test() starts at its lastIndex and stores the end of   *)
(* the match (0 after a failure) in it.  getOptions copies the array, not  *)
(* the RegExp objects.                                                     *)
(***************************************************************************)

RegExpObject(re, global) == [re |-> re, global |-> global, lastIndex |-> 0]

\* pattern.test(s): the result and the pattern object afterwards.
RegExpObjectTest(p, s) ==
  IF ~p.global THEN [matched |-> RegExpTest(p.re, s), pattern |-> p]
  ELSE IF p.lastIndex > Len(s)
  THEN [matched |-> FALSE, pattern |-> [p EXCEPT !.lastIndex = 0]]
  ELSE LET first == IF p.re.kind = "suffix" THEN Len(s) - Len(p.re.lit) ELSE 0
           last == CASE p.re.kind = "suffix" -> Len(s)
                     [] p.re.kind = "prefix" -> Len(p.re.lit)
                     [] p.re.kind = "prefixUpper" -> Len(p.re.lit) + 1
       IN  IF RegExpTest(p.re, s) /\ first >= p.lastIndex
           THEN [matched |-> TRUE, pattern |-> [p EXCEPT !.lastIndex = last]]
           ELSE [matched |-> FALSE, pattern |-> [p EXCEPT !.lastIndex = 0]]

\* patterns.some((pattern) => pattern.test(name)) from pattern k on: the
\* result and the patterns afterwards; some() stops at the first match.
RECURSIVE SomeObjectMatch(_, _, _)
SomeObjectMatch(patterns, k, name) ==
  IF k > Len(patterns) THEN [matched |-> FALSE, patterns |-> patterns]
  ELSE LET r == RegExpObjectTest(patterns[k], name)
           after == [patterns EXCEPT ![k] = r.pattern]
       IN  IF r.matched THEN [matched |-> TRUE, patterns |-> after]
           ELSE SomeObjectMatch(after, k + 1, name)

\* data.allTypes.filter(...) from type i on: the kept types and the patterns
\* afterwards.
RECURSIVE FilterWithObjects(_, _, _, _)
FilterWithObjects(data, i, patterns, options) ==
  IF i > Len(data) THEN [types |-> <<>>, patterns |-> patterns]
  ELSE LET type == data[i]
           tested == Len(type.name) >= options.minNameLength
                       /\ ~Includes(options.ignoreTypes, type.name)
           r == IF tested THEN SomeObjectMatch(patterns, 1, type.name)
                ELSE [matched |-> FALSE, patterns |-> patterns]
           keep == tested /\ ~r.matched /\ Len(type.fields) >= options.minFieldCount
           rest == FilterWithObjects(data, i + 1, r.patterns, options)
       IN  [types |-> (IF keep THEN <<type>> ELSE <<>>) \o rest.types,
            patterns |-> rest.patterns]

\* One call lint(data, config): the issues and config.options afterwards.
LintWithObjects(data, userOpts) ==
  LET options == StGetOptions(userOpts)
      f == FilterWithObjects(data, 1, options.ignorePatterns, options)
  IN  [issues |-> StIssuesOf(f.types, options),
       userOpts |-> IF "ignorePatterns" \in DOMAIN userOpts
                    THEN [userOpts EXCEPT !.ignorePatterns = f.patterns]
                    ELSE userOpts]

\* Most lint calls on one snapshot and config.
MaxCalls == 3

RepeatPool ==
  {TypeInfo(NameUsrs, PathA, 7, <<Field("a", "number"), Field("b", "number")>>),
   TypeInfo(NameUsr, PathB, 1, <<Field("a", "string"), Field("b", "number")>>),
   TypeInfo(NameUsr, PathA, 1, <<Field("a", "string"), Field("c", "number")>>),
   TypeInfo(NameAcct \o <<115>>, PathB, 9, <<Field("a", "string"), Field("b", "number")>>)}

RepeatInit ==
  /\ fnName = "lint"
  /\ \E data \in EntityLists(RepeatPool, MaxStTypes) :
       \E userOpts \in {<<>>,
                        [ignorePatterns |-> <<RegExpObject(ReSuffix(<<115>>), FALSE)>>],
                        [ignorePatterns |-> <<RegExpObject(ReSuffix(<<115>>), TRUE)>>]} :
         fnArgs = <<data, userOpts>>
  /\ fnResult = <<>>
  /\ nameSim \in [PairsOf({NameUsr, NameUsrs, NameAcct \o <<115>>}) -> {Score(40), Score(90)}]
  /\ DlIdle
  /\ SfIdle
  /\ StIdle
  /\ OcIdle

\* similarTypesLinter.lint(data, config) is called once more and returns.
RepeatLint ==
  /\ fnName = "lint"
  /\ Len(fnResult) < MaxCalls
  /\ LET r == LintWithObjects(fnArgs[1], fnArgs[2])
     IN  /\ fnResult' = Append(fnResult, r.issues)
         /\ fnArgs' = <<fnArgs[1], r.userOpts>>
  /\ UNCHANGED <<fnName, dlVars, nameSim, sfVars, stVars, ocVars>>

SpecRepeat == RepeatInit /\ [][RepeatLint]_vars

\* The RegExp objects of the config of the repeated calls.
RepeatPatterns ==
  IF "ignorePatterns" \in DOMAIN fnArgs[2] THEN fnArgs[2].ignorePatterns ELSE <<>>

\* C22 (as claimed): lint leaves the config as it was given (every pattern
\* object still has the lastIndex it came with) and every further call on
\* the same snapshot and config returns the issue list of the first call.
C22_AsClaimed ==
  fnName = "lint" =>
    /\ \A k \in 1..Len(RepeatPatterns) : RepeatPatterns[k].lastIndex = 0
    /\ \A k \in 1..Len(fnResult) : fnResult[k] = fnResult[1]

\* The part of C22 that holds: with patterns that carry no g flag the config
\* stays as given and every call returns the same issues.
C22_PureWithoutGlobalFlag ==
  (fnName = "lint" /\ \A k \in 1..Len(RepeatPatterns) : ~RepeatPatterns[k].global)
    => /\ \A k \in 1..Len(RepeatPatterns) : RepeatPatterns[k].lastIndex = 0
       /\ \A k \in 1..Len(fnResult) : fnResult[k] = fnResult[1]

\* The second half of C22 alone: every call returns the issues of the first.
C22_RepeatedCallsAgree ==
  fnName = "lint" => \A k \in 1..Len(fnResult) : fnResult[k] = fnResult[1]

(***************************************************************************)
(* orphaned-code: paths                                                    *)
(***************************************************************************)

StripPrefix(s, lit) == IF StartsWith(s, lit) THEN SubSeq(s, Len(lit) + 1, Len(s)) ELSE s

StripSuffix(s, lit) == IF EndsWith(s, lit) THEN SubSeq(s, 1, Len(s) - Len(lit)) ELSE s

\* s.split(c)
RECURSIVE SplitOn(_, _)
SplitOn(s, c) ==
  IF \A i \in 1..Len(s) : s[i] # c THEN <<s>>
  ELSE LET i == CHOOSE i \in 1..Len(s) : s[i] = c /\ \A j \in 1..(i - 1) : s[j] # c
       IN  <<SubSeq(s, 1, i - 1)>> \o SplitOn(SubSeq(s, i + 1, Len(s)), c)

\* segments.join(c)
RECURSIVE JoinWith(_, _)
JoinWith(segments, c) ==
  IF segments = <<>> THEN <<>>
  ELSE IF Len(segments) = 1 THEN segments[1]
  ELSE segments[1] \o <<c>> \o JoinWith(Tail(segments), c)

\* normalizePath(path): backslashes to "/", then a leading "./", a trailing
\* "/index.ts" and a trailing ".ts" or ".tsx" are removed, in this order.
normalizePath(path) ==
  LET slashes == [i \in 1..Len(path) |-> IF path[i] = 92 THEN 47 ELSE path[i]]
      noDot == StripPrefix(slashes, <<46, 47>>)
      noIndex == StripSuffix(noDot, <<47, 105, 110, 100, 101, 120, 46, 116, 115>>)
  IN  IF EndsWith(noIndex, <<46, 116, 115, 120>>) THEN StripSuffix(noIndex, <<46, 116, 115, 120>>)
      ELSE StripSuffix(noIndex, <<46, 116, 115>>)

\* importerPath.replace(/\/[^/]+$/, ""): the last "/" and what follows it are
\* removed when something follows it; a path without "/" stays whole.
importerDir(importerPath) ==
  LET parts == SplitOn(importerPath, 47)
  IN  IF Len(parts) >= 2 /\ parts[Len(parts)] # <<>>
      THEN JoinWith(SubSeq(parts, 1, Len(parts) - 1), 47)
      ELSE importerPath

\* The loop of resolveImportPath over importSegments.
RECURSIVE ApplySegments(_, _)
ApplySegments(segments, importSegments) ==
  IF importSegments = <<>> THEN segments
  ELSE LET seg == Head(importSegments)
           next == IF seg = <<46>> THEN segments
                   ELSE IF seg = <<46, 46>>
                        THEN (IF segments = <<>> THEN <<>>
                              ELSE SubSeq(segments, 1, Len(segments) - 1))
                        ELSE Append(segments, seg)
       IN  ApplySegments(next, Tail(importSegments))

\* The normalized paths of data.files.
FilePaths(files) == {normalizePath(files[i].path) : i \in 1..Len(files)}

\* The normalized path of the first file of files whose normalized path is
\* in accepted, as <<path>>; <<>> when there is none.
FirstFilePath(files, accepted) ==
  LET hits == {i \in 1..Len(files) : normalizePath(files[i].path) \in accepted}
  IN  IF hits = {} THEN <<>>
      ELSE <<normalizePath(files[CHOOSE i \in hits : \A j \in hits : i <= j].path)>>

\* resolveImportPath(importerPath, importFrom, data): <<path>>, or <<>> for
\* null.
resolveImportPath(importerPath, importFrom, files) ==
  IF ~StartsWith(importFrom, <<46, 47>>) /\ ~StartsWith(importFrom, <<46, 46, 47>>)
  THEN LET normalized == normalizePath(importFrom)
       IN  FirstFilePath(files,
             {filePath \in FilePaths(files) :
                filePath = normalized \/ EndsWith(filePath, <<47>> \o normalized)})
  ELSE LET segments == ApplySegments(SplitOn(importerDir(importerPath), 47),
                                     SplitOn(importFrom, 47))
           normalized == normalizePath(JoinWith(segments, 47))
           found == FirstFilePath(files,
                      {normalized,
                       normalized \o <<47, 105, 110, 100, 101, 120>>,
                       normalized \o <<47, 109, 111, 100>>})
       IN  IF found # <<>> THEN found ELSE <<normalized>>

(***************************************************************************)
(* orphaned-code                                                           *)
(***************************************************************************)

OcMetaId == "orphaned-code"

\* DEFAULT_OPTIONS; /tests?\// is the two patterns /test\// and /tests\//.
OcDefaultOptions ==
  [checkFunctions |-> TRUE,
   checkTypes |-> TRUE,
   checkOther |-> TRUE,
   entryPointPatterns |-> <<ReSuffix(<<109, 111, 100, 46, 116, 115>>),      \* /mod\.ts$/
                            ReSuffix(<<105, 110, 100, 101, 120, 46, 116, 115>>),   \* /index\.ts$/
                            ReSuffix(<<109, 97, 105, 110, 46, 116, 115>>),     \* /main\.ts$/
                            ReSuffix(<<99, 108, 105, 46, 116, 115>>),      \* /cli\.ts$/
                            ReSuffix(<<115, 101, 114, 118, 101, 114, 46, 116, 115>>),   \* /server\.ts$/
                            ReSuffix(<<97, 112, 112, 46, 116, 115>>)>>,    \* /app\.ts$/
   ignoreExportPatterns |-> <<>>,
   ignoreFilePatterns |-> <<ReSuffix(<<46, 116, 101, 115, 116, 46, 116, 115>>),      \* /\.test\.ts$/
                            ReSuffix(<<46, 115, 112, 101, 99, 46, 116, 115>>),      \* /\.spec\.ts$/
                            ReSuffix(<<95, 116, 101, 115, 116, 46, 116, 115>>),      \* /_test\.ts$/
                            ReContains(<<116, 101, 115, 116, 47>>), ReContains(<<116, 101, 115, 116, 115, 47>>)>>,
   reexportCountsAsUsage |-> TRUE,
   externalPatterns |-> <<RePrefix(<<64, 115, 116, 100, 47>>), RePrefix(<<110, 112, 109, 58>>), RePrefix(<<106, 115, 114, 58>>),
                          RePrefix(<<104, 116, 116, 112, 58, 47, 47>>), RePrefix(<<104, 116, 116, 112, 115, 58, 47, 47>>), RePrefix(<<110, 111, 100, 101, 58>>)>>,
   checkDefaultExports |-> FALSE]

\* getOptions(config): defaults, overridden by the user's options; the four
\* pattern lists are the default list followed by the user's list.
OcGetOptions(userOpts) ==
  [k \in DOMAIN OcDefaultOptions |->
     IF k \in {"entryPointPatterns", "ignoreExportPatterns", "ignoreFilePatterns",
               "externalPatterns"}
     THEN OcDefaultOptions[k] \o (IF k \in DOMAIN userOpts THEN userOpts[k] ELSE <<>>)
     ELSE IF k \in DOMAIN userOpts THEN userOpts[k] ELSE OcDefaultOptions[k]]

NameDefault == <<100, 101, 102, 97, 117, 108, 116>>   \* "default"

\* shouldCheckExport(exp, opts)
shouldCheckExport(exp, opts) ==
  IF exp.name = NameDefault /\ ~opts.checkDefaultExports THEN FALSE
  ELSE IF exp.kind = "re-export" THEN FALSE
  ELSE IF exp.kind = "function" THEN opts.checkFunctions
  ELSE IF exp.kind \in {"type", "interface"} THEN opts.checkTypes
  ELSE opts.checkOther

\* collectExports(data, opts)
RECURSIVE collectExports(_, _)
collectExports(files, opts) ==
  IF files = <<>> THEN <<>>
  ELSE LET file == Head(files)
           own == IF SomeMatch(opts.ignoreFilePatterns, file.path) THEN <<>>
                  ELSE [i \in 1..Len(SelectSeq(file.exports,
                                               LAMBDA e : shouldCheckExport(e, opts))) |->
                          [export |-> SelectSeq(file.exports,
                                                LAMBDA e : shouldCheckExport(e, opts))[i],
                           modulePath |-> normalizePath(file.path)]]
       IN  own \o collectExports(Tail(files), opts)

\* isExternalImport(from, opts)
isExternalImport(from, opts) == SomeMatch(opts.externalPatterns, from)

\* collectImports(data, opts); rest is the part of data.files still to visit.
RECURSIVE collectImportsFrom(_, _, _)
collectImportsFrom(rest, files, opts) ==
  IF rest = <<>> THEN <<>>
  ELSE LET file == Head(rest)
           internal == SelectSeq(file.imports, LAMBDA imp : ~isExternalImport(imp.from, opts))
           own == [i \in 1..Len(internal) |->
                     [import |-> internal[i],
                      importerPath |-> normalizePath(file.path),
                      resolvedPath |-> resolveImportPath(file.path, internal[i].from, files)]]
       IN  own \o collectImportsFrom(Tail(rest), files, opts)

collectImports(files, opts) == collectImportsFrom(files, files, opts)

\* importMatchesExport(imp, exp)
importMatchesExport(imp, exp) ==
  IF imp.name = NameDefault /\ exp.name = NameDefault THEN TRUE
  ELSE imp.name = exp.name

\* exportKey(resolved)
exportKey(resolved) == resolved.modulePath \o <<58>> \o resolved.export.name

\* findUsedExports(allExports, allImports, data, opts): the set of keys.  A
\* resolvedPath of null or "" is skipped; an export's from and localName are
\* <<>> when undefined.
findUsedExports(allExports, allImports, files, opts) ==
  LET exps == {allExports[i] : i \in 1..Len(allExports)}
      imps == {allImports[i] : i \in 1..Len(allImports)}
      byImport ==
        {exportKey(exp) : exp \in
           {e \in exps : \E imp \in imps :
              /\ imp.resolvedPath # <<>>
              /\ imp.resolvedPath[1] # <<>>
              /\ e.modulePath = imp.resolvedPath[1]
              /\ importMatchesExport(imp.import, e.export) \/ imp.import.isNamespace}}
      byReexport ==
        {exportKey(source) : source \in
           {e \in exps : \E exp \in exps :
              /\ opts.reexportCountsAsUsage
              /\ exp.export.kind = "re-export"
              /\ exp.export.from # <<>>
              /\ LET fromPath == resolveImportPath(exp.modulePath, exp.export.from[1], files)
                 IN  /\ fromPath # <<>>
                     /\ fromPath[1] # <<>>
                     /\ e.modulePath = fromPath[1]
                     /\ e.export.name = (IF exp.export.localName # <<>>
                                         THEN exp.export.localName[1]
                                         ELSE exp.export.name)}}
  IN  byImport \cup byReexport

\* shouldReport(resolved, opts)
shouldReport(resolved, opts) ==
  IF SomeMatch(opts.entryPointPatterns, resolved.modulePath) THEN FALSE
  ELSE IF SomeMatch(opts.ignoreExportPatterns, resolved.export.name) THEN FALSE
  ELSE TRUE

\* createOrphanedIssue(resolved)
createOrphanedIssue(resolved) ==
  [kind |-> issueKind(OcMetaId, <<"orphaned-code", "orphaned-export">>),
   location |-> resolved.export.location,
   context |-> [exportName |-> resolved.export.name,
                exportKind |-> IF resolved.export.kind = "unknown" THEN "export"
                               ELSE resolved.export.kind,
                file |-> resolved.modulePath]]

\* The loop of lint over allExports.
OcReportLoop(allExports, usedExports, opts) ==
  LET orphaned == SelectSeq(allExports,
                    LAMBDA r : exportKey(r) \notin usedExports /\ shouldReport(r, opts))
  IN  [i \in 1..Len(orphaned) |-> createOrphanedIssue(orphaned[i])]

\* An export and an import as the extractor describes them; from and
\* localName of an export are <<>> when undefined.
ExportInfo(name, kind, file, line) ==
  [name |-> name, kind |-> kind, from |-> <<>>, localName |-> <<>>,
   location |-> [file |-> file, line |-> line]]

ImportInfo(name, from) == [name |-> name, from |-> from, isNamespace |-> FALSE]

FileInfo(path, exports, imports) == [path |-> path, exports |-> exports, imports |-> imports]

\* Files of the snapshots: helper is exported by src/utils.ts, by utils.ts
\* and by src/lib/index.ts and imported by name from files at several depths,
\* with and without the extension; src/mod.ts and main.ts are entry points.
OcFilePool ==
  LET helper == <<104, 101, 108, 112, 101, 114>>
      api == <<97, 112, 105>>
      start == <<115, 116, 97, 114, 116>>
      Exporter(path, name, kind) == FileInfo(path, <<ExportInfo(name, kind, path, 1)>>, <<>>)
      Importer(path, name, from) == FileInfo(path, <<>>, <<ImportInfo(name, from)>>)
  IN  {Exporter(<<115, 114, 99, 47, 117, 116, 105, 108, 115, 46, 116, 115>>, helper, "function"),
       Exporter(<<117, 116, 105, 108, 115, 46, 116, 115>>, helper, "const"),
       Exporter(<<115, 114, 99, 47, 108, 105, 98, 47, 105, 110, 100, 101, 120, 46, 116, 115>>, helper, "type"),
       Exporter(<<115, 114, 99, 47, 109, 111, 100, 46, 116, 115>>, api, "function"),
       FileInfo(<<109, 97, 105, 110, 46, 116, 115>>, <<ExportInfo(start, "function", <<109, 97, 105, 110, 46, 116, 115>>, 1)>>,
                <<ImportInfo(helper, <<46, 47, 117, 116, 105, 108, 115, 46, 116, 115>>)>>),
       Importer(<<115, 114, 99, 47, 106, 111, 98, 46, 116, 115>>, helper, <<46, 47, 117, 116, 105, 108, 115, 46, 116, 115>>),
       Importer(<<115, 114, 99, 47, 100, 101, 101, 112, 47, 116, 97, 115, 107, 46, 116, 115>>, helper, <<46, 46, 47, 117, 116, 105, 108, 115>>),
       Importer(<<106, 111, 98, 46, 116, 115>>, helper, <<46, 47, 115, 114, 99, 47, 117, 116, 105, 108, 115, 46, 116, 115>>),
       Importer(<<115, 114, 99, 47, 117, 115, 101, 46, 116, 115>>, helper, <<46, 47, 108, 105, 98, 47, 105, 110, 100, 101, 120, 46, 116, 115>>),
       Importer(<<115, 114, 99, 47, 101, 120, 116, 46, 116, 115>>, api, <<106, 115, 114, 58, 64, 115, 116, 100, 47, 109, 111, 100, 46, 116, 115>>)}

\* Most files of one orphaned-code snapshot.
MaxFiles == 3

OcOpts ==
  {<<>>,
   [entryPointPatterns |-> <<ReSuffix(<<117, 116, 105, 108, 115, 46, 116, 115>>)>>],
   [ignoreExportPatterns |-> <<RePrefix(<<104, 101, 108, 112>>)>>],
   [checkFunctions |-> FALSE]}

\* data.files: no path twice.
OcInit ==
  /\ ocData \in {s \in EntityLists(OcFilePool, MaxFiles) :
                   \A i, j \in 1..Len(s) : i # j => s[i].path # s[j].path}
  /\ ocUserOpts \in OcOpts
  /\ ocPc = "start"
  /\ ocExports = <<>>
  /\ ocImports = <<>>
  /\ ocUsed = {}
  /\ ocIssues = <<>>
  /\ nameSim = <<>>
  /\ DlIdle
  /\ SfIdle
  /\ StIdle
  /\ FnIdle

(***************************************************************************)
(* orphaned-code: lint(data, config), one action per stage                 *)
(***************************************************************************)

ocOpts == OcGetOptions(ocUserOpts)

\* const allExports = ...; const allImports = ...
OcCollect ==
  /\ ocPc = "start"
  /\ ocExports' = collectExports(ocData, ocOpts)
  /\ ocImports' = collectImports(ocData, ocOpts)
  /\ ocPc' = "used"
  /\ UNCHANGED <<ocData, ocUserOpts, ocUsed, ocIssues>>
  /\ UNCHANGED <<dlVars, nameSim, sfVars, stVars, fnVars>>

\* const usedExports = this.findUsedExports(...)
OcFindUsed ==
  /\ ocPc = "used"
  /\ ocUsed' = findUsedExports(ocExports, ocImports, ocData, ocOpts)
  /\ ocPc' = "report"
  /\ UNCHANGED <<ocData, ocUserOpts, ocExports, ocImports, ocIssues>>
  /\ UNCHANGED <<dlVars, nameSim, sfVars, stVars, fnVars>>

\* Find orphaned exports; return issues
OcReport ==
  /\ ocPc = "report"
  /\ ocIssues' = OcReportLoop(ocExports, ocUsed, ocOpts)
  /\ ocPc' = "done"
  /\ UNCHANGED <<ocData, ocUserOpts, ocExports, ocImports, ocUsed>>
  /\ UNCHANGED <<dlVars, nameSim, sfVars, stVars, fnVars>>

OcNext == OcCollect \/ OcFindUsed \/ OcReport

SpecOC == OcInit /\ [][OcNext]_vars

(***************************************************************************)
(* Claims on orphaned-code                                                 *)
(***************************************************************************)

\* C24 (as claimed): no issue of a finished orphaned-code run reports an
\* export declared in a file whose path matches one of the entry-point
\* patterns (the defaults and the user's).
C24_AsClaimed ==
  ocPc = "done" =>
    \A k \in 1..Len(ocIssues) :
      ~SomeMatch(ocOpts.entryPointPatterns, ocIssues[k].location.file)

\* What holds instead: the patterns are tested on the normalized module
\* path, and no issue is about a module whose normalized path matches one.
C24_NormalizedPathTested ==
  ocPc = "done" =>
    \A k \in 1..Len(ocIssues) :
      ~SomeMatch(ocOpts.entryPointPatterns, normalizePath(ocIssues[k].location.file))

\* The file path a relative import path names: the importing file's
\* directory (nothing for a file at the root) followed by the segments of
\* the import path, "." skipped and ".." removing a directory.
RelativeTarget(importerPath, importFrom) ==
  LET parts == SplitOn(importerPath, 47)
  IN  JoinWith(ApplySegments(SubSeq(parts, 1, Len(parts) - 1), SplitOn(importFrom, 47)), 47)

\* File i of the snapshot imports the export `name` of the file at path by
\* name through a relative import path, written with or without ".ts".
ImportsByName(i, name, path) ==
  /\ ocData[i].path # path
  /\ \E n \in 1..Len(ocData[i].imports) :
       LET imp == ocData[i].imports[n]
       IN  /\ imp.name = name
           /\ StartsWith(imp.from, <<46, 47>>) \/ StartsWith(imp.from, <<46, 46, 47>>)
           /\ \/ RelativeTarget(ocData[i].path, imp.from) = path
              \/ RelativeTarget(ocData[i].path, imp.from) \o <<46, 116, 115>> = path

\* C25 (as claimed): no issue of a finished orphaned-code run reports an
\* export that another file of the snapshot imports by name through a
\* relative import path resolving to the exporting file.
C25_AsClaimed ==
  ocPc = "done" =>
    \A k \in 1..Len(ocIssues) :
      ~\E i \in 1..Len(ocData) :
         ImportsByName(i, ocIssues[k].context.exportName, ocIssues[k].location.file)

\* The part of C25 that holds: such an export is not reported when the
\* importing file lies in a directory (its path contains "/").
C25_UsedFromDirectory ==
  ocPc = "done" =>
    \A k \in 1..Len(ocIssues) :
      ~\E i \in 1..Len(ocData) :
         /\ 47 \in {ocData[i].path[n] : n \in 1..Len(ocData[i].path)}
         /\ ImportsByName(i, ocIssues[k].context.exportName, ocIssues[k].location.file)

\* ---------------------------------------------------------------------
\* The issue call sites of the linters that are not run step by step
\* ---------------------------------------------------------------------

\* The type of each entry of DEPRECATION_PATTERNS.
DeprecationTypes ==
  {"annotation", "marker", "mention", "legacy", "removal", "obsolete", "warning"}

\* createDeprecationIssue(match): the kind of the issue made for a match.
createDeprecationIssue(matchType) ==
  [kind |-> issueKind("deprecation-check",
                      <<"deprecation-check", "deprecated-" \o matchType>>)]

\* duplicate-strings' createIssue: the kind of the one issue it makes.
createDuplicateStringIssue ==
  [kind |-> issueKind("duplicate-strings", <<"", "duplicate">>)]

\* type-location's two checks: the kind of the issue each makes.
checkTypesOutsideTypesPackage ==
  [kind |-> issueKind("type-location", <<"", "type-outside-types">>)]

checkLogicInTypesFile ==
  [kind |-> issueKind("type-location", <<"", "logic-in-types">>)]

\* The issues a call site of the linter can make.
IssuesOfLinter(id) ==
  CASE id = "deprecation-check" -> {createDeprecationIssue(t) : t \in DeprecationTypes}
    [] id = "duplicate-strings" -> {createDuplicateStringIssue}
    [] id = "type-location" -> {checkTypesOutsideTypesPackage, checkLogicInTypesFile}

SiteLinters == {"deprecation-check", "duplicate-strings", "type-location"}

\* lint() of these linters returns at most MaxIssues issues here.
MaxIssues == 3

\* lint() of one of the three linters starts with no issue.
SiteInit ==
  /\ fnName \in SiteLinters
  /\ fnArgs = <<>>
  /\ fnResult = <<>>
  /\ nameSim = <<>>
  /\ DlIdle
  /\ SfIdle
  /\ StIdle
  /\ OcIdle

\* The linter reaches one of its issue call sites.
EmitIssue ==
  /\ fnName \in SiteLinters
  /\ Len(fnResult) < MaxIssues
  /\ \E issue \in IssuesOfLinter(fnName) : fnResult' = Append(fnResult, issue)
  /\ UNCHANGED <<fnName, fnArgs, dlVars, nameSim, sfVars, stVars, ocVars>>

\* The catalog of each linter: its keys.
Catalog(id) ==
  CASE id = "duplicate-logic" ->
         {<<"duplicate-logic", "exact-duplicate">>,
          <<"duplicate-logic", "similar-implementation">>}
    [] id = "similar-functions" ->
         {<<"similar-functions", "similar-name-high">>,
          <<"similar-functions", "similar-name-medium">>,
          <<"similar-functions", "duplicate-function">>,
          <<"similar-functions", "same-name-different-params">>}
    [] id = "similar-types" ->
         {<<"similar-types", "similar-name-high">>,
          <<"similar-types", "similar-name-medium">>,
          <<"similar-types", "duplicate-type">>,
          <<"similar-types", "same-name-different-structure">>,
          <<"similar-types", "similar-structure">>}
    [] id = "orphaned-code" -> {<<"orphaned-code", "orphaned-export">>}
    [] id = "deprecation-check" ->
         {<<"deprecation-check", "deprecated-annotation">>,
          <<"deprecation-check", "deprecated-marker">>,
          <<"deprecation-check", "deprecated-mention">>,
          <<"deprecation-check", "deprecated-legacy">>,
          <<"deprecation-check", "deprecated-removal">>,
          <<"deprecation-check", "deprecated-obsolete">>,
          <<"deprecation-check", "deprecated-warning">>}
    [] id = "duplicate-strings" -> {<<"duplicate-strings", "duplicate">>}
    [] id = "type-location" ->
         {<<"type-location", "type-outside-types">>,
          <<"type-location", "logic-in-types">>}

AllInit == LintInit \/ OcInit \/ SiteInit

AllNext == LintNext \/ OcNext \/ EmitIssue

SpecAll == AllInit /\ [][AllNext]_vars

\* The kind is prefixed with the linter's id and is a key of its catalog.
KindOfLinter(id, kind) == kind[1] = id /\ kind \in Catalog(id)

KindsOfLinter(id, issues) ==
  \A k \in 1..Len(issues) : KindOfLinter(id, issues[k].kind)

FunctionInfoWith(name, file, line, body, normalizedBody, bodyHash) ==
  [name |-> name, location |-> [file |-> file, line |-> line], body |-> body,
   normalizedBody |-> normalizedBody, bodyHash |-> bodyHash, missing |-> {}]

\* A supplied normalized body that is not normalizeCode of any body here.
NormQ == Rep(113, 9)
\* A supplied hash: "h1"
HashH1 == <<104, 49>>

\* Functions at pairwise different locations: two with the supplied hash
\* "h1" and different bodies, one with nothing supplied, one with a supplied
\* normalized body (that of BodyX) and no hash, one with the body of the
\* third and a supplied normalized body of its own.
DlFactsPool ==
  {FunctionInfoWith(NameFoo, PathA, 2, BodyX, NormQ, HashH1),
   FunctionInfoWith(NameBar, PathB, 1, BodyY, <<>>, HashH1),
   FunctionInfoWith(NameBaz, PathB, 3, BodyX, <<>>, <<>>),
   FunctionInfoWith(NameFoo, PathA, 5, BodyZ, normalizeCode(BodyX), <<>>),
   FunctionInfoWith(NameBar, PathA, 7, BodyX, NormQ, <<>>)}

MaxFactsFuncs == 3

DlFactsOpts == {<<>>, [errorOnExact |-> FALSE]}

\* Scores around the 0.99 limit and one below the similarity threshold.
FactsSimLevels == {Score(70), Score(98), Score(99)}

DlFactsInit ==
  /\ \E s \in DlFunctionLists(DlFactsPool, MaxFactsFuncs) : dlData = [files |-> FilesOf(s)]
  /\ dlUserOpts \in DlFactsOpts
  /\ LET norms == NormsOf(prepareFunctions(dlData.files, DlGetOptions(dlUserOpts)))
     IN  bodySim \in [{{a, b} : a \in norms, b \in norms} \ {{a} : a \in norms}
                        -> FactsSimLevels]
  /\ dlPc = "start"
  /\ dlFunctions = <<>>
  /\ dlPairs = <<>>
  /\ dlSeen = {}
  /\ dlIssues = <<>>
  /\ nameSim = <<>>
  /\ SfIdle
  /\ StIdle
  /\ FnIdle
  /\ OcIdle

SpecDLFacts == DlFactsInit /\ [][DlNext]_vars

\* The pair of the k-th returned issue is exact: its two functions were put
\* in one hash group, or the comparator scores their bodies 0.99 or more.
PairIsExact(pair) ==
  \/ pair.func1.hash = pair.func2.hash
  \/ compareCodeBodies(pair.func1.normalized, pair.func2.normalized).similarity >= Score(99)

C27_SuppliedFactsTrusted ==
  /\ dlPc \in {"exact", "near", "sort", "done"} =>
       LET all == DlAllFunctions(dlData.files)
       IN  /\ Len(dlFunctions) = Len(all)
           /\ \A i \in 1..Len(all) :
                /\ all[i].normalizedBody # <<>> =>
                     dlFunctions[i].normalized = all[i].normalizedBody
                /\ all[i].normalizedBody = <<>> =>
                     dlFunctions[i].normalized = normalizeCode(all[i].body)
                /\ all[i].bodyHash # <<>> => dlFunctions[i].hash = all[i].bodyHash
                /\ all[i].bodyHash = <<>> =>
                     dlFunctions[i].hash = hashCodeBody(dlFunctions[i].normalized)
  /\ dlPc = "done" =>
       \A i, j \in 1..Len(dlFunctions) :
         (/\ i < j
          /\ dlFunctions[i].bodyHash # <<>>
          /\ dlFunctions[i].bodyHash = dlFunctions[j].bodyHash
          /\ shouldCompare(dlFunctions[i], dlFunctions[j], dlOpts))
         => \E k \in 1..Len(dlPairs) :
              /\ dlPairs[k].func1 = dlFunctions[i]
              /\ dlPairs[k].func2 = dlFunctions[j]
              /\ dlPairs[k].similarity = Score(100)
              /\ dlPairs[k].isExact
              /\ dlIssues[k].context.similarity = 100
              /\ dlIssues[k].location = dlFunctions[i].location

\* Two functions with the supplied hash "h1", different bodies and a
\* comparator score of 0.7 are returned as a pair of similarity 1.0.
C27_Witness ==
  /\ dlPc = "done"
  /\ \E k \in 1..Len(dlPairs) :
       /\ dlPairs[k].func1.bodyHash = HashH1
       /\ dlPairs[k].func2.bodyHash = HashH1
       /\ dlPairs[k].func1.body # dlPairs[k].func2.body
       /\ bodySim[{dlPairs[k].func1.normalized, dlPairs[k].func2.normalized}] = Score(70)
       /\ dlPairs[k].similarity = Score(100)

\* ---------------------------------------------------------------------
\* Claim on the order of the two passes of findDuplicates
\* ---------------------------------------------------------------------

\* Two files whose functions all start on line 2, and a third function of
\* the second file with a body of its own.
DlSharedPool ==
  {FunctionInfo(NameFoo, PathA, 2, BodyX),
   FunctionInfo(NameNone, PathA, 2, BodyY),
   FunctionInfo(NameFoo, PathB, 2, BodyX),
   FunctionInfo(NameBaz, PathB, 2, BodyY),
   FunctionInfo(NameBar, PathB, 1, BodyZ)}

MaxSharedFuncs == 5

DlSharedOpts == {<<>>, [maxPairs |-> 1]}

DlSharedInit == DlInitFrom(DlSharedPool, DlSharedOpts, MaxSharedFuncs)

SpecDLShared == DlSharedInit /\ [][DlNext]_vars

\* The pair was found by body comparison: its functions are in two hash groups.
FoundByComparison(pair) == pair.func1.hash # pair.func2.hash

\* Every two prepared functions of one hash that pass shouldCompare are a
\* pair of the list.
NoHashPairLeftOut(pairs) ==
  \A i, j \in 1..Len(dlFunctions) :
    (/\ i < j
     /\ dlFunctions[i].hash = dlFunctions[j].hash
     /\ shouldCompare(dlFunctions[i], dlFunctions[j], dlOpts))
    => \E k \in 1..Len(pairs) :
         pairs[k].func1 = dlFunctions[i] /\ pairs[k].func2 = dlFunctions[j]

\* The near-duplicate pass added nothing when the hash pass had found
\* maxPairs pairs or more.
NearPassOnlyBelowCap ==
  dlPc \in {"sort", "done"} =>
    LET hashPairs == {k \in 1..Len(dlPairs) : ~FoundByComparison(dlPairs[k])}
    IN  (dlPc = "sort" /\ Cardinality(hashPairs) >= dlOpts.maxPairs)
          => hashPairs = 1..Len(dlPairs)

\* C30 (as claimed): the near-duplicate pass runs only when the hash pass
\* found fewer than maxPairs pairs, and the returned list holds no pair found
\* by body comparison while a pair of one hash that passes shouldCompare is
\* left out of it.
C30_AsClaimed ==
  /\ NearPassOnlyBelowCap
  /\ dlPc = "done" =>
       ((\E k \in 1..Len(dlPairs) : FoundByComparison(dlPairs[k]))
          => NoHashPairLeftOut(dlPairs))

\* The part of C30 that holds: the same, for snapshots in which no two
\* prepared functions share a file and line.
C30_DistinctLocations ==
  /\ NearPassOnlyBelowCap
  /\ (/\ dlPc = "done"
      /\ \A i, j \in 1..Len(dlFunctions) :
           i # j => DlLocKey(dlFunctions[i]) # DlLocKey(dlFunctions[j]))
     => ((\E k \in 1..Len(dlPairs) : FoundByComparison(dlPairs[k]))
           => NoHashPairLeftOut(dlPairs))

\* ---------------------------------------------------------------------
\* Claims on the two passes of similar-types together
\* ---------------------------------------------------------------------

\* An issue of the list is about the two types, in either order.
StReported(issues, typeA, typeB) ==
  \E k \in 1..Len(issues) :
    \/ issues[k].location = typeA.location /\ issues[k].relatedLocations = <<typeB.location>>
    \/ issues[k].location = typeB.location /\ issues[k].relatedLocations = <<typeA.location>>

\* Two eligible types of different files and different names whose fields
\* reach the field similarity threshold.
StStructurallySimilar(typeA, typeB) ==
  /\ typeA.location.file # typeB.location.file
  /\ typeA.name # typeB.name
  /\ compareFields(typeA.fields, typeB.fields).combined >= stOpts.fieldSimilarityThreshold

\* C28 (as claimed): in a finished run with checkFieldStructure on, every
\* pair of eligible types in different files, with different names and with
\* combined field similarity >= fieldSimilarityThreshold is reported by the
\* name pass or by the structure pass.
C28_AsClaimed ==
  (stPc = "done" /\ stOpts.checkFieldStructure) =>
    \A i, j \in 1..Len(stTypes) :
      (i < j /\ StStructurallySimilar(stTypes[i], stTypes[j]))
        => StReported(stIssues, stTypes[i], stTypes[j])

\* The part of C28 that holds: such a pair is reported when its name
\* similarity is at most 0.5 or passes the thresholds of the name check,
\* in snapshots where no two eligible types share a file and a name.
C28_OutsideTheBand ==
  (/\ stPc = "done"
   /\ stOpts.checkFieldStructure
   /\ \A i, j \in 1..Len(stTypes) :
        (i # j /\ stTypes[i].location.file = stTypes[j].location.file)
          => stTypes[i].name # stTypes[j].name) =>
    \A i, j \in 1..Len(stTypes) :
      (/\ i < j
       /\ StStructurallySimilar(stTypes[i], stTypes[j])
       /\ LET similarity == compareIdentifiers(stTypes[i].name, stTypes[j].name).similarity
          IN  similarity <= Score(50) \/ NameTier(similarity, stOpts) # "none")
      => StReported(stIssues, stTypes[i], stTypes[j])

\* Options that put the floor and the tiers of the name check at or below
\* the 0.5 of checkFieldStructures, and one set that keeps them above it.
StLowOpts ==
  {[minSimilarity |-> Score(40), warningThreshold |-> Score(40)],
   [minSimilarity |-> Score(50), warningThreshold |-> Score(50), errorThreshold |-> Score(50)],
   [minSimilarity |-> Score(60), warningThreshold |-> Score(60)]}

StLowInit ==
  /\ stData \in EntityLists(StPool, MaxStTypes)
  /\ stUserOpts \in StLowOpts
  /\ LET kept == SelectSeq(stData, LAMBDA t : StKeep(t, StGetOptions(stUserOpts)))
     IN  nameSim \in [PairsOf({kept[i].name : i \in 1..Len(kept)}) -> NameLevels]
  /\ stPc = "start"
  /\ stTypes = <<>>
  /\ stChecked = {}
  /\ stIssues = <<>>
  /\ DlIdle
  /\ SfIdle
  /\ FnIdle
  /\ OcIdle

SpecSTLow == StLowInit /\ [][StNext]_vars

\* Issue k is an issue of the name pass on two types of different names and
\* issue m a similar-structure issue on the same two types.
StReportedTwice(k, m) ==
  /\ stIssues[k].kind[2] \in {"similar-name-high", "similar-name-medium"}
  /\ stIssues[m].kind[2] = "similar-structure"
  /\ {<<stIssues[k].location, stIssues[k].context.typeA>>,
      <<stIssues[k].relatedLocations[1], stIssues[k].context.typeB>>}
     = {<<stIssues[m].location, stIssues[m].context.typeA>>,
        <<stIssues[m].relatedLocations[1], stIssues[m].context.typeB>>}

\* C29 (as claimed): whatever minSimilarity, warningThreshold and
\* errorThreshold are, no pair of types reported by the name pass is also
\* reported as similar-structure (a pair of one name is never compared by
\* checkFieldStructures, so the pairs at stake have different names).
C29_AsClaimed ==
  stPc = "done" =>
    \A k, m \in 1..Len(stIssues) : ~StReportedTwice(k, m)

\* The part of C29 that holds: no pair is reported by both passes when
\* minSimilarity or warningThreshold is above 0.5.
C29_FloorAboveHalf ==
  (/\ stPc = "done"
   /\ stOpts.minSimilarity > Score(50) \/ stOpts.warningThreshold > Score(50)) =>
    \A k, m \in 1..Len(stIssues) : ~StReportedTwice(k, m)

====
